---------------------------- MODULE Spec2Model ----------------------------
(***************************************************************************)
(* A model of the sez-vision backend: the credential and token service     *)
(* (pkg/utils), the access control gate (internal/middleware), the account *)
(* administration and registration services (internal/service) and the     *)
(* user repository over the relational store (internal/repository).        *)
(*                                                                         *)
(* Go strings are byte sequences; a string the code inspects byte by byte  *)
(* (a password) is a sequence of one-character strings, one per byte.      *)
(***************************************************************************)
EXTENDS Integers, Sequences, FiniteSets, TLC

VARIABLES
    pwIn,       \* the password string handed to the policy gate
    pwUtils,    \* what utils.ValidatePassword returned for pwIn, or NotCalled
    pwService,  \* what service.validatePassword returned for pwIn, or NotCalled
    jwtSecret,  \* cfg.JWTSecret, fixed at startup
    jwtTTL,     \* cfg.JWTTTL in whole seconds, fixed at startup
    now,        \* the wall clock, in ticks
    users,      \* the rows of the users table
    jar,        \* the token string the client holds, or NoToken
    jarOrigin,  \* how the token in jar was made (bookkeeping, not program state)
    last,       \* the last request served by the protected router group
    reqs,       \* the account requests in flight, one per request goroutine
    nextId,     \* how many identifiers uuid.New has handed to stored accounts
    begun,      \* how many account requests have arrived
    records,    \* the rows of the operation_records table
    cells,      \* the rows of the cells table
    cellReqs,   \* the requests on cells in flight, one per goroutine
    rus,        \* the rows of the ru_infos table
    inserted,   \* the operation_records rows committed since the start, oldest first
    ruReqs,     \* the requests on units and on the ledger in flight
    regs,       \* the registrations that succeeded (bookkeeping)
    me,         \* what GET /api/auth/me answered to the request in last
    seen        \* the logins refused so far, by kind (bookkeeping)

pwVars == <<pwIn, pwUtils, pwService>>
gateVars == <<jwtSecret, jwtTTL, now, users, jar, jarOrigin, last>>
acctVars == <<reqs, nextId, begun>>
unitVars == <<rus, ruReqs, inserted>>
ruVars == <<records, cells, cellReqs, rus, ruReqs, inserted>>
sessVars == <<regs, me, seen>>

vars == <<pwIn, pwUtils, pwService, jwtSecret, jwtTTL, now, users, jar,
          jarOrigin, last, reqs, nextId, begun, records, cells, cellReqs,
          rus, ruReqs, inserted, regs, me, seen>>

-----------------------------------------------------------------------------
(* Password policy gate: pkg/utils and internal/service hold one copy each. *)

\* The longest generated password, in bytes.
MaxPwLen == 7

\* The bytes the generated passwords are made of: a letter, a digit, two
\* members of the special-character class and a punctuation byte outside it.
PwAlphabet == {"a", "1", "!", "-", "~"}

\* The character class of the regular expression
\*   [!@#$%^&*()_+\-=\[\]{};':"\\|,.<>\/?]
SpecialChars ==
    {"!", "@", "#", "$", "%", "^", "&", "*", "(", ")", "_", "+", "-", "=",
     "[", "]", "{", "}", ";", "'", ":", "\"", "\\", "|", ",", ".", "<", ">",
     "/", "?"}

\* regexp.MatchString for a one-character class: scan for the leftmost byte
\* of the class.
RECURSIVE MatchFrom(_, _)
MatchFrom(s, i) ==
    IF i > Len(s) THEN FALSE
    ELSE IF s[i] \in SpecialChars THEN TRUE
    ELSE MatchFrom(s, i + 1)

MatchString(s) == MatchFrom(s, 1)

MsgTooShort == "password must contain at least 6 characters"
MsgNoSpecial == "password must contain at least one special character"

PwResult(ok, msg) == [ok |-> ok, msg |-> msg]

\* The gate has not been called yet.
NotCalled == [ok |-> FALSE, msg |-> "not called"]

UtilsValidatePasswordOffByOne(password) ==
    IF Len(password) <= 6 THEN PwResult(FALSE, MsgTooShort)
    ELSE IF ~MatchString(password) THEN PwResult(FALSE, MsgNoSpecial)
    ELSE PwResult(TRUE, "")

\* utils.ValidatePassword
UtilsValidatePassword(password) ==
    IF Len(password) < 6 THEN PwResult(FALSE, MsgTooShort)
    ELSE IF ~MatchString(password) THEN PwResult(FALSE, MsgNoSpecial)
    ELSE PwResult(TRUE, "")

\* service.validatePassword
validatePassword(password) ==
    IF Len(password) < 6 THEN PwResult(FALSE, MsgTooShort)
    ELSE IF ~MatchString(password) THEN PwResult(FALSE, MsgNoSpecial)
    ELSE PwResult(TRUE, "")

Abc123 == <<"a", "b", "c", "1", "2", "3">>
Abc123Bang == <<"a", "b", "c", "1", "2", "3", "!">>

Strings(alphabet, n) == UNION {[1..k -> alphabet] : k \in 0..n}

PasswordInputs == Strings(PwAlphabet, MaxPwLen) \cup {Abc123, Abc123Bang}

-----------------------------------------------------------------------------
(* Accounts (internal/models) and password digests (pkg/utils).             *)

RoleDispatcher == "dispatcher"
RoleEngineer == "engineer"
RoleAdmin == "admin"
UserRoles == {RoleDispatcher, RoleEngineer, RoleAdmin}

\* bcrypt.DefaultCost, and the cost of the seeded administrator's digest.
BcryptDefaultCost == 10
SeedCost == 12

\* utils.HashPassword: the bcrypt digest of a password, kept as the one-way
\* image of (cost, password); the password is never read back out of it.
HashPassword(password) == [cost |-> BcryptDefaultCost, of |-> password]

\* utils.CheckPassword: bcrypt.CompareHashAndPassword reports no error.
CheckPassword(password, hash) == hash.of = password

User(id, name, email, hash, role) ==
    [id |-> id, name |-> name, email |-> email, hash |-> hash, role |-> role]

Pw123456 == <<"1", "2", "3", "4", "5", "6">>

\* checkAndSeedTestData: the administrator created at first start.
SeedAdmin ==
    User("admin-001", "Administrator", "admin@sez.com",
         [cost |-> SeedCost, of |-> Pw123456], RoleAdmin)

-----------------------------------------------------------------------------
(* Session tokens (pkg/utils, over golang-jwt).                             *)

\* The clock counts ticks; a NumericDate of the token holds whole seconds.
TicksPerSecond == 2

\* The last clock value of a behaviour.
MaxTime == 4

\* The largest configured time-to-live, in seconds.
MaxTTL == 1

Secrets == {"secret-A", "secret-B"}

Algs == {"HS256", "HS384", "RS256", "none"}

\* The methods of type *jwt.SigningMethodHMAC.
HMACFamily == {"HS256", "HS384", "HS512"}

\* jwt.NewNumericDate: the instant truncated to the second.
NewNumericDate(t) == t - (t % TicksPerSecond)

Claims(uid, email, role, iat, exp) ==
    [uid |-> uid, email |-> email, role |-> role, iat |-> iat, exp |-> exp]

NoClaims == Claims("", "", "", 0, 0)

\* The signature bytes: a MAC over the header (the declared method) and the
\* claims under a key. Two signatures are equal iff all three agree.
Sign(alg, claims, key) == [alg |-> alg, claims |-> claims, key |-> key]

\* The empty signature of an unsigned token.
NoSig == Sign("", NoClaims, "")

Token(alg, claims, sig) == [alg |-> alg, claims |-> claims, sig |-> sig]

NoToken == Token("", NoClaims, NoSig)

\* utils.GenerateToken at clock value t; ttl in seconds.
GenerateToken(user, secret, ttl, t) ==
    LET claims == Claims(user.id, user.email, user.role,
                         NewNumericDate(t),
                         NewNumericDate(t + ttl * TicksPerSecond))
    IN  Token("HS256", claims, Sign("HS256", claims, secret))

\* A string is a sequence of lexemes: a space, a word, or the compact
\* serialisation of a token. A word is never a serialised token.
Sp == [kind |-> "sp", word |-> " ", tok |-> NoToken]
Word(w) == [kind |-> "word", word |-> w, tok |-> NoToken]
Tok(t) == [kind |-> "tok", word |-> "", tok |-> t]

\* The result of the key function: the key handed to the verifier, or an error.
KeyResult(handed, key, err) == [handed |-> handed, key |-> key, err |-> err]

KeyFuncAnyMethod(token, secret) == KeyResult(TRUE, secret, "")

\* The key function ValidateToken gives to jwt.ParseWithClaims.
KeyFunc(token, secret) ==
    IF token.alg \notin HMACFamily
    THEN KeyResult(FALSE, "", "unexpected signing method")
    ELSE KeyResult(TRUE, secret, "")

VerifyAnyKey(token, key) ==
    /\ token.alg \in HMACFamily
    /\ token.sig.alg = token.alg
    /\ token.sig.claims = token.claims

\* token.Method.Verify with a []byte key: an HMAC method recomputes the MAC;
\* the RSA methods and "none" refuse a []byte key.
Verify(token, key) ==
    /\ token.alg \in HMACFamily
    /\ token.sig = Sign(token.alg, token.claims, key)

NotExpiredInclusive(claims, t) == t <= claims.exp

\* The validator's expiry check: now.Before(exp).
NotExpired(claims, t) == t < claims.exp

Validation(called, ok, claims, keyHanded, err) ==
    [called |-> called, ok |-> ok, claims |-> claims, keyHanded |-> keyHanded,
     err |-> err]

NotValidated == Validation(FALSE, FALSE, NoClaims, FALSE, "")

\* utils.ValidateToken at clock value t: jwt.ParseWithClaims splits and
\* decodes the string, asks the key function, verifies the signature and
\* validates the claims.
ValidateToken(tokenString, secret, t) ==
    IF ~(Len(tokenString) = 1 /\ tokenString[1].kind = "tok")
    THEN Validation(TRUE, FALSE, NoClaims, FALSE, "token is malformed")
    ELSE
      LET token == tokenString[1].tok
          k == KeyFunc(token, secret)
      IN  IF k.err # ""
          THEN Validation(TRUE, FALSE, NoClaims, k.handed, k.err)
          ELSE IF ~Verify(token, k.key)
          THEN Validation(TRUE, FALSE, NoClaims, k.handed, "signature is invalid")
          ELSE IF ~NotExpired(token.claims, t)
          THEN Validation(TRUE, FALSE, NoClaims, k.handed, "token is expired")
          ELSE Validation(TRUE, TRUE, token.claims, k.handed, "")


-----------------------------------------------------------------------------
(* The access control gate (internal/middleware) and the router (main).     *)

\* strings.SplitN(s, " ", 2): the string cut at its first space, or whole.
FirstSpace(s) ==
    IF \E i \in 1..Len(s) : s[i].kind = "sp"
    THEN CHOOSE i \in 1..Len(s) :
             /\ s[i].kind = "sp"
             /\ \A j \in 1..(i - 1) : s[j].kind # "sp"
    ELSE 0

SplitN2(s) ==
    LET i == FirstSpace(s)
    IN  IF i = 0 THEN <<s>>
        ELSE <<SubSeq(s, 1, i - 1), SubSeq(s, i + 1, Len(s))>>

Bearer == <<Word("Bearer")>>

\* The request-scoped keys of a gin context: c.Set / c.Get.
Keys(set, id, email, role) ==
    [set |-> set, user_id |-> id, user_email |-> email, user_role |-> role]

NoKeys == Keys(FALSE, "", "", "")

\* A gin context while its handler chain runs. ran lists the handlers entered.
Context(method, group, path, header) ==
    [method |-> method, group |-> group, path |-> path, header |-> header,
     keys |-> NoKeys, status |-> 0, msg |-> "", aborted |-> FALSE,
     ran |-> <<>>, vt |-> NotValidated]

\* c.JSON(status, {"error": msg}); c.Abort()
AbortWith(c, status, msg) ==
    [c EXCEPT !.status = status, !.msg = msg, !.aborted = TRUE]

AuthMiddlewareNoAbortOnInvalid(c, secret, t) ==
    IF c.method = "OPTIONS" THEN c
    ELSE IF c.header = <<>>
    THEN AbortWith(c, 401, "authorization header is required")
    ELSE
      LET parts == SplitN2(c.header)
      IN  IF Len(parts) # 2 \/ parts[1] # Bearer
          THEN AbortWith(c, 401, "invalid authorization header format")
          ELSE
            LET v == ValidateToken(parts[2], secret, t)
                claims == IF Len(parts[2]) = 1 THEN parts[2][1].tok.claims
                          ELSE NoClaims
            IN  [c EXCEPT !.vt = v,
                          !.keys = Keys(TRUE, claims.uid, claims.email,
                                        claims.role)]

AuthMiddlewareParseFirst(c, secret, t) ==
    IF c.method = "OPTIONS" THEN c
    ELSE
      LET parts == SplitN2(c.header)
          v == ValidateToken(parts[Len(parts)], secret, t)
      IN  IF c.header = <<>>
          THEN AbortWith([c EXCEPT !.vt = v], 401,
                         "authorization header is required")
          ELSE IF Len(parts) # 2 \/ parts[1] # Bearer
          THEN AbortWith([c EXCEPT !.vt = v], 401,
                         "invalid authorization header format")
          ELSE IF ~v.ok
          THEN AbortWith([c EXCEPT !.vt = v], 401, "invalid or expired token")
          ELSE [c EXCEPT !.vt = v,
                         !.keys = Keys(TRUE, v.claims.uid, v.claims.email,
                                       v.claims.role)]

\* A gate that looks the account of the token up in the users table and
\* admits the request only while the row is there with the role of the token.
AuthMiddlewareChecksAccount(c, secret, t) ==
    IF c.method = "OPTIONS" THEN c
    ELSE IF c.header = <<>>
    THEN AbortWith(c, 401, "authorization header is required")
    ELSE
      LET parts == SplitN2(c.header)
      IN  IF Len(parts) # 2 \/ parts[1] # Bearer
          THEN AbortWith(c, 401, "invalid authorization header format")
          ELSE
            LET v == ValidateToken(parts[2], secret, t)
            IN  IF ~v.ok
                THEN AbortWith([c EXCEPT !.vt = v], 401,
                               "invalid or expired token")
                ELSE IF ~(\E u \in users : /\ u.id = v.claims.uid
                                           /\ u.role = v.claims.role)
                THEN AbortWith([c EXCEPT !.vt = v], 401,
                               "invalid or expired token")
                ELSE [c EXCEPT !.vt = v,
                               !.keys = Keys(TRUE, v.claims.uid, v.claims.email,
                                             v.claims.role)]

\* middleware.AuthMiddleware(jwtSecret) on context c at clock value t. The
\* result not aborted, the chain goes on (c.Next()).
AuthMiddleware(c, secret, t) ==
    IF c.method = "OPTIONS" THEN c
    ELSE IF c.header = <<>>
    THEN AbortWith(c, 401, "authorization header is required")
    ELSE
      LET parts == SplitN2(c.header)
      IN  IF Len(parts) # 2 \/ parts[1] # Bearer
          THEN AbortWith(c, 401, "invalid authorization header format")
          ELSE
            LET v == ValidateToken(parts[2], secret, t)
            IN  IF ~v.ok
                THEN AbortWith([c EXCEPT !.vt = v], 401,
                               "invalid or expired token")
                ELSE [c EXCEPT !.vt = v,
                               !.keys = Keys(TRUE, v.claims.uid, v.claims.email,
                                             v.claims.role)]

RoleMiddlewareNoAbort(c, allowedRoles) ==
    IF ~c.keys.set THEN AbortWith(c, 401, "user role not found")
    ELSE IF ~(\E allowedRole \in allowedRoles : c.keys.user_role = allowedRole)
    THEN [c EXCEPT !.status = 403, !.msg = "insufficient permissions"]
    ELSE c

\* middleware.RoleMiddleware(allowedRoles...) on context c. The stored role
\* is always a string, so the type assertion never fails.
RoleMiddleware(c, allowedRoles) ==
    IF ~c.keys.set THEN AbortWith(c, 401, "user role not found")
    ELSE IF ~(\E allowedRole \in allowedRoles : c.keys.user_role = allowedRole)
    THEN AbortWith(c, 403, "insufficient permissions")
    ELSE c

\* One element of a handler chain: a handler and, for the role stage, the
\* roles it was built with.
H(name, roles) == [h |-> name, roles |-> roles]

Route(method, group, path, handler) ==
    [method |-> method, group |-> group, path |-> path, handler |-> handler]

\* The routes main registers under the protected group /api.
Routes ==
    { Route("GET", "auth", "/auth/me", "GetMe"),
      Route("GET", "rus", "/rus/", "GetAllRUs"),
      Route("GET", "rus", "/rus/:id", "GetRu"),
      Route("GET", "rus", "/rus/:id/history", "GetHistory"),
      Route("PUT", "rus", "/rus/:id/cells/:cellId/status", "UpdateCellStatus"),
      Route("POST", "rus", "/rus/:id/history", "AddHistory"),
      Route("PATCH", "rus", "/rus/:id/cells/:cellId/info", "UpdateCellInfo"),
      Route("PUT", "rus", "/rus/:id/status", "UpdateRuStatus"),
      Route("PUT", "rus", "/rus/substations/:id/rus", "UpdateSubstationRUs"),
      Route("GET", "admin", "/admin/users", "GetUsers"),
      Route("POST", "admin", "/admin/users", "CreateUser"),
      Route("PUT", "admin", "/admin/users/:id", "UpdateUser"),
      Route("DELETE", "admin", "/admin/users/:id", "DeleteUser"),
      Route("PUT", "admin", "/admin/users/:id/password", "ChangePassword"),
      Route("POST", "admin", "/admin/rus", "CreateRU"),
      Route("POST", "admin", "/admin/rus/:id/cells", "CreateCells"),
      Route("GET", "engineer", "/engineer/test", "EngineerTest"),
      Route("GET", "dispatcher", "/dispatcher/test", "DispatcherTest") }

\* The handlers that write to the store.
StateChanging ==
    {"UpdateCellStatus", "AddHistory", "UpdateCellInfo", "UpdateRuStatus",
     "UpdateSubstationRUs", "CreateUser", "UpdateUser", "DeleteUser",
     "ChangePassword"}

\* The roles each group's RoleMiddleware is built with; the groups without a
\* role stage have none.
RoleGated == {"admin", "engineer", "dispatcher"}

AllowedRoles(group) ==
    CASE group = "admin" -> {"admin"}
      [] group = "engineer" -> {"engineer", "admin"}
      [] group = "dispatcher" -> {"dispatcher", "engineer", "admin"}
      [] OTHER -> {}

\* protected.Use(AuthMiddleware), then the group's own Use.
GroupMiddleware(group) ==
    <<H("AuthMiddleware", {})>>
    \o (IF group \in RoleGated
        THEN <<H("RoleMiddleware", AllowedRoles(group))>> ELSE <<>>)

RouteHandlerAnyMethod(method, path) ==
    LET r == CHOOSE x \in Routes : x.path = path IN r.handler

\* The handler registered for (method, path), or the 404 handler.
RouteHandler(method, path) ==
    IF \E r \in Routes : r.method = method /\ r.path = path
    THEN (CHOOSE r \in Routes : r.method = method /\ r.path = path).handler
    ELSE "NoRoute"

\* The chain the router runs for a request. A route carries its group's
\* middleware. No route is registered for OPTIONS: the router answers such a
\* request itself (viaGroup false); the chain of the group's middleware with
\* no handler behind it (viaGroup true) is the path the pre-flight branch of
\* AuthMiddleware is written for, and it is explored as well.
Dispatch(method, group, path, viaGroup) ==
    LET h == RouteHandler(method, path)
    IN  IF h # "NoRoute" \/ viaGroup
        THEN GroupMiddleware(group) \o <<H(h, {})>>
        ELSE <<H("NoRoute", {})>>

\* One handler of a chain on context c.
Handle(e, c, secret, t) ==
    LET in == [c EXCEPT !.ran = Append(@, e.h)]
    IN  CASE e.h = "AuthMiddleware" -> AuthMiddleware(in, secret, t)
          [] e.h = "RoleMiddleware" -> RoleMiddleware(in, e.roles)
          [] e.h = "NoRoute" -> [in EXCEPT !.status = 404,
                                           !.msg = "Not Found"]
          [] OTHER -> [in EXCEPT !.status = 200]

\* gin's Context.Next: the handlers in order, until one aborts.
RECURSIVE RunChain(_, _, _, _)
RunChain(chain, c, secret, t) ==
    IF chain = <<>> \/ c.aborted THEN c
    ELSE RunChain(Tail(chain), Handle(Head(chain), c, secret, t), secret, t)


-----------------------------------------------------------------------------
(* Login (internal/service AuthService) over the user repository.           *)

\* UserRepository.FindByEmail: the rows with that email; First takes one.
FindByEmail(store, email) == {u \in store : u.email = email}

LoginResult(err, token, uid) == [err |-> err, token |-> token, uid |-> uid]

\* A login that tells the caller when the email has no account.
LoginTellsAbsent(store, email, password, secret, ttl, t) ==
    LET found == FindByEmail(store, email)
    IN  IF found = {}
        THEN LoginResult("user not found", NoToken, "")
        ELSE
          LET user == CHOOSE u \in found : TRUE
          IN  IF ~CheckPassword(password, user.hash)
              THEN LoginResult("invalid email or password", NoToken, "")
              ELSE LoginResult("", GenerateToken(user, secret, ttl, t), user.id)

\* AuthService.Login at clock value t.
Login(store, email, password, secret, ttl, t) ==
    LET found == FindByEmail(store, email)
    IN  IF found = {}
        THEN LoginResult("invalid email or password", NoToken, "")
        ELSE
          LET user == CHOOSE u \in found : TRUE
          IN  IF ~CheckPassword(password, user.hash)
              THEN LoginResult("invalid email or password", NoToken, "")
              ELSE LoginResult("", GenerateToken(user, secret, ttl, t), user.id)

-----------------------------------------------------------------------------
(* The users table (internal/repository UserRepository over GORM and        *)
(* PostgreSQL).  CreatedAt and UpdatedAt are left out: nothing reads them.  *)

NoHash == [cost |-> 0, of |-> <<>>]

NoUser == User("", "", "", NoHash, "")

\* How many accounts registration and the administrator create in a run.
MaxNewUsers == 2

\* How many account requests arrive in a run.
MaxRequests == 3

\* uuid.New().String(): the n-th identifier handed out.
UUID(n) == <<"uuid-1", "uuid-2", "uuid-3", "uuid-4", "uuid-5">>[n]

DbResult(ok, store) == [ok |-> ok, store |-> store]

\* INSERT without the unique index on email: only the primary key is checked.
DbInsertNoUniqueIndex(store, row) ==
    IF \E u \in store : u.id = row.id
    THEN DbResult(FALSE, store)
    ELSE DbResult(TRUE, store \cup {row})

\* db.Create: INSERT into the table AutoMigrate made for models.User, with
\* the primary key on id and the unique index on email.
DbInsert(store, row) ==
    IF \E u \in store : u.id = row.id \/ u.email = row.email
    THEN DbResult(FALSE, store)
    ELSE DbResult(TRUE, store \cup {row})

\* db.Save: UPDATE of every column by primary key; when no row has the key,
\* the row is inserted.
DbSave(store, row) ==
    IF \E u \in store : u.id = row.id
    THEN IF \E u \in store : u.id # row.id /\ u.email = row.email
         THEN DbResult(FALSE, store)
         ELSE DbResult(TRUE, {u \in store : u.id # row.id} \cup {row})
    ELSE DbInsert(store, row)

\* UserRepository.Create: the identifier is generated when it is empty.
Create(store, user, fresh) ==
    DbInsert(store, IF user.id = "" THEN [user EXCEPT !.id = fresh] ELSE user)

\* UserRepository.Update.
Update(store, user) == DbSave(store, user)

\* A delete whose condition matches no row.
DeleteNoRow(store, id) == store

\* UserRepository.Delete.
Delete(store, id) == {u \in store : u.id # id}

\* An email check that never finds a row.
ExistsByEmailNever(store, email) == FALSE

\* UserRepository.ExistsByEmail: count > 0, the comparison is the column's
\* (text, byte for byte).
ExistsByEmail(store, email) == \E u \in store : u.email = email

\* UserRepository.FindByID.
FindByID(store, id) == {u \in store : u.id = id}

-----------------------------------------------------------------------------
(* Account requests: registration and the administrator's operations. Each  *)
(* request runs in its own goroutine; its calls to the store are atomic and *)
(* interleave with the calls of the other requests.                         *)

Slots == {"r1", "r2"}

\* models.UserResponse: the public projection of an account.
UserResponse(user) ==
    [id |-> user.id, name |-> user.name, email |-> user.email,
     role |-> user.role]

NoResp == UserResponse(NoUser)

Request(op, id, name, email, password, role) ==
    [op |-> op, id |-> id, name |-> name, email |-> email,
     password |-> password, role |-> role,
     pc |-> "bound", user |-> NoUser, status |-> 0, err |-> "",
     resp |-> NoResp]

NoReq == [Request("", "", "", "", <<>>, "") EXCEPT !.pc = "idle"]

AcctDefaults ==
    /\ reqs = [s \in Slots |-> NoReq]
    /\ nextId = 0
    /\ begun = 0

-----------------------------------------------------------------------------
(* Cells (internal/models Cell, internal/repository RuRepository). The      *)
(* columns no operation writes after the seed (type, voltage level, power,  *)
(* measurements) and CreatedAt, UpdatedAt are left out.                     *)

\* A *string column holding a formatted time: NULL, or the second it names.
Stamp(nil, sec) == [nil |-> nil, sec |-> sec]

NoStamp == Stamp(TRUE, 0)

\* A layout that keeps the date alone: every instant of a run formats alike.
FormatDateOnly(t) == 0

\* time.Time.Format("02.01.2006 15:04:05"): the instant cut to its second.
Format(t) == t \div TicksPerSecond

Cell(id, ruId, number, name, status, voltage, description, lastOperation, isGrounded, lastGroundedOperation) ==
    [id |-> id, ruId |-> ruId, number |-> number, name |-> name,
     status |-> status, voltage |-> voltage, description |-> description,
     lastOperation |-> lastOperation, isGrounded |-> isGrounded,
     lastGroundedOperation |-> lastGroundedOperation]

NoCell == Cell(0, "", "", "", "", "", "", NoStamp, FALSE, NoStamp)

CellStatusON == "ON"
CellStatusOFF == "OFF"
CellStatusReserve == "RESERVE"
CellStatusError == "ERROR"
CellStatusMaintenance == "MAINTENANCE"

CellStatuses ==
    {CellStatusON, CellStatusOFF, CellStatusReserve, CellStatusError,
     CellStatusMaintenance}

\* The cells table after the seed: the first cell of unit tp-1i and the
\* first cell of unit tp-1l, under the ids 1 and 2 (autoIncrement numbers
\* the rows as they are inserted; the ids in between are left out).
SeedCells ==
    { Cell(1, "tp-1i", "c.11", "Input 10 kV 1", CellStatusON, "10 kV",
           "Incoming feed 10 kV, section 1", NoStamp, FALSE, NoStamp),
      Cell(2, "tp-1l", "c.9", "Input 10 kV 1", CellStatusON, "10 kV",
           "Incoming feed 10 kV, section 1", NoStamp, FALSE, NoStamp) }

\* A lookup by the cell id alone.
GetCellByIDAnyUnit(table, cellID, ruID) == {c \in table : c.id = cellID}

\* RuRepository.GetCellByID: WHERE id = ? AND ru_id = ?; First takes one.
GetCellByID(table, cellID, ruID) ==
    {c \in table : c.id = cellID /\ c.ruId = ruID}

\* RuRepository.UpdateCell: db.Save, every column by primary key (the row is
\* inserted when the key is not there).
UpdateCell(table, cell) == {c \in table : c.id # cell.id} \cup {cell}

\* The optional isGrounded of a request body (*bool).
Flag(set, val) == [set |-> set, val |-> val]

NoFlag == Flag(FALSE, FALSE)

\* A request on a cell in its goroutine: the body, the position in the
\* service, the row as it was read (read) and the row the service holds and
\* changes (cell).
CellRequest(op, ruID, cellID, status, flag, name, description, voltage) ==
    [op |-> op, ruID |-> ruID, cellID |-> cellID, status |-> status,
     flag |-> flag, name |-> name, description |-> description,
     voltage |-> voltage, pc |-> "bound", read |-> NoCell, cell |-> NoCell,
     code |-> 0, err |-> ""]

NoCellReq ==
    [CellRequest("", "", 0, "", NoFlag, "", "", "") EXCEPT !.pc = "idle"]

CellDefaults ==
    /\ cells = SeedCells
    /\ cellReqs = [s \in Slots |-> NoCellReq]

-----------------------------------------------------------------------------
(* Operation records (internal/models OperationRecord): the history ledger. *)
(* The optional fields of a record are left out: no operation reads them.   *)

OperationRecord(id, ruId, cellNumber, cellName, action, operator, timestamp, createdAt) ==
    [id |-> id, ruId |-> ruId, cellNumber |-> cellNumber,
     cellName |-> cellName, action |-> action, operator |-> operator,
     timestamp |-> timestamp, createdAt |-> createdAt]

\* The ledger the account requests run beside: entries made by the seeded
\* administrator and by another operator, before the clock of a run starts.
SomeRecords ==
    { OperationRecord("rec-1", "tp-1l", "c-1", "Input 1", "switched off",
                      SeedAdmin.name, "01.01.2026 10:00:00", -2),
      OperationRecord("rec-2", "tp-2i", "c-1", "Input 1", "switched on",
                      "Ann", "01.01.2026 11:00:00", -1) }

-----------------------------------------------------------------------------
(* Equipment units (internal/models RUInfo). Of the nameplate columns only  *)
(* the name is kept: no operation reads or writes the others.               *)

RUInfo(id, name, status, substationID) ==
    [id |-> id, name |-> name, status |-> status,
     substationID |-> substationID]

NoRU == RUInfo("", "", "", "")

\* The ru_infos table after the seed: three of the seeded units.
SeedRUs ==
    { RUInfo("tp-1i", "TP-1I", "operating normally", "ps-164"),
      RUInfo("tp-1l", "TP-1L", "operating normally", "ps-164"),
      RUInfo("tp-2i", "TP-2I", "operating normally", "ps-164") }

\* A lookup that finds a unit for every id: the first row of the table.
GetRuByIDAnyRow(table, ruID) ==
    IF table = {} THEN {} ELSE {CHOOSE r \in table : TRUE}

\* RuRepository.GetRuByID: WHERE id = ?; First takes one.
GetRuByID(table, ruID) == {r \in table : r.id = ruID}

\* RuRepository.UpdateRu: db.Save, every column by primary key.
UpdateRu(table, ru) == {r \in table : r.id # ru.id} \cup {ru}

\* A request on units or on the ledger in its goroutine: the path parameter
\* (ruID), the body or query (status, ruIds, limit, rec), the position in
\* the service, the unit row it holds (row), and the answer (code, err, the
\* records hist or the units list).
RuRequest(op, ruID, status, ruIds, limit, rec) ==
    [op |-> op, ruID |-> ruID, status |-> status, ruIds |-> ruIds,
     limit |-> limit, rec |-> rec, pc |-> "idle", row |-> NoRU,
     hist |-> <<>>, list |-> <<>>, code |-> 0, err |-> "", limitStr |-> ""]

NoRecord == OperationRecord("", "", "", "", "", "", "", 0)

NoRuReq == RuRequest("", "", "", <<>>, 0, NoRecord)

UnitDefaults ==
    /\ rus = SeedRUs
    /\ inserted = <<>>
    /\ ruReqs = [s \in Slots |-> NoRuReq]

RuDefaults ==
    /\ records = SomeRecords
    /\ CellDefaults
    /\ UnitDefaults

-----------------------------------------------------------------------------
(* Sessions: what the public handlers answer.                               *)

\* The body and status a handler writes; resp is the account projection and
\* token the session token, when the answer carries them.
Answer(status, error, message, details, resp, token) ==
    [status |-> status, error |-> error, message |-> message,
     details |-> details, resp |-> resp, token |-> token]

NoAnswer == Answer(0, "", "", "", NoResp, NoToken)

SessDefaults ==
    /\ regs = {}
    /\ me = NoAnswer
    /\ seen = {}

-----------------------------------------------------------------------------
(* The gate specification: tokens are issued, altered and presented.        *)

Origin(kind, key, ttl, at, uid) ==
    [kind |-> kind, key |-> key, ttl |-> ttl, at |-> at, uid |-> uid,
     role |-> ""]

NoOrigin == Origin("none", "", 0, 0, "")

\* The accounts of the gate specification: the seeded administrator, a
\* registered engineer and a dispatcher the administrator created.
GateUsers ==
    { SeedAdmin,
      User("u-eng", "Alice", "a@x.com", HashPassword(Abc123Bang), RoleEngineer),
      User("u-dis", "Bob", "b@x.com", HashPassword(Abc123Bang), RoleDispatcher) }

NoRequest ==
    [c |-> Context("", "", "", <<>>), at |-> 0, origin |-> NoOrigin,
     served |-> FALSE]

\* The Authorization header values a client holding token j sends.
HeaderShapes(j) ==
    LET t == IF j = NoToken THEN Word("garbage") ELSE Tok(j)
    IN  { <<>>,
          <<Word("Bearer"), Sp, t>>,
          <<Word("Bearer")>>,
          <<Word("Bearer"), Sp>>,
          <<Word("Bearer"), t>>,
          <<Word("bearer"), Sp, t>>,
          <<Word("Basic"), Sp, t>>,
          <<t>>,
          <<Word("Bearer"), Sp, Sp, t>>,
          <<Word("Bearer"), Sp, Word("garbage")>> }

Paths == {[group |-> r.group, path |-> r.path] : r \in Routes}

PwDefaults ==
    /\ pwIn = <<>>
    /\ pwUtils = NotCalled
    /\ pwService = NotCalled

GateInit ==
    /\ PwDefaults
    /\ AcctDefaults
    /\ RuDefaults
    /\ SessDefaults
    /\ jwtSecret \in Secrets
    /\ jwtTTL \in 0..MaxTTL
    /\ now = 0
    /\ users = GateUsers
    /\ jar = NoToken
    /\ jarOrigin = NoOrigin
    /\ last = NoRequest

\* The environment moves only between requests: last describes a request
\* served at the present clock value with the present token.
Idle == ~last.served

Tick ==
    /\ Idle
    /\ now < MaxTime
    /\ now' = now + 1
    /\ UNCHANGED <<pwVars, ruVars, sessVars, acctVars, jwtSecret, jwtTTL, users, jar, jarOrigin, last>>

\* POST /api/auth/login; the client keeps the token of a successful login.
LoginRequest(email, password) ==
    LET r == Login(users, email, password, jwtSecret, jwtTTL, now)
    IN  /\ Idle
        /\ jar' = IF r.err = "" THEN r.token ELSE jar
        /\ jarOrigin' = IF r.err = ""
                        THEN [Origin("issued", jwtSecret, jwtTTL, now, r.uid)
                                 EXCEPT !.role =
                                     (CHOOSE u \in users : u.id = r.uid).role]
                        ELSE jarOrigin
        /\ UNCHANGED <<pwVars, ruVars, sessVars, acctVars, jwtSecret, jwtTTL, now, users, last>>

\* A token GenerateToken makes under another secret (another deployment, or
\* a guess of the secret).
IssuedElsewhere(u, secret) ==
    /\ Idle
    /\ secret # jwtSecret
    /\ jar' = GenerateToken(u, secret, jwtTTL, now)
    /\ jarOrigin' = [Origin("issued", secret, jwtTTL, now, u.id)
                         EXCEPT !.role = u.role]
    /\ UNCHANGED <<pwVars, ruVars, sessVars, acctVars, jwtSecret, jwtTTL, now, users, last>>

\* The client rewrites the header of an issued token to declare method alg
\* and attaches a signature: none, the old one, or a MAC under a key.
Redeclare(alg, sig) ==
    /\ Idle
    /\ jarOrigin.kind = "issued"
    /\ jar' = Token(alg, jar.claims, sig)
    /\ jar' # jar
    /\ jarOrigin' = [jarOrigin EXCEPT !.kind = "forged"]
    /\ UNCHANGED <<pwVars, ruVars, sessVars, acctVars, jwtSecret, jwtTTL, now, users, last>>

\* The client edits the role claim of an issued token and keeps its signature.
Tamper(role) ==
    /\ Idle
    /\ jarOrigin.kind = "issued"
    /\ role # jar.claims.role
    /\ jar' = [jar EXCEPT !.claims.role = role]
    /\ jarOrigin' = [jarOrigin EXCEPT !.kind = "tampered"]
    /\ UNCHANGED <<pwVars, ruVars, sessVars, acctVars, jwtSecret, jwtTTL, now, users, last>>

\* The router serves one request of the protected group: the chain runs to
\* its end in the request's goroutine.
Serve(method, p, header, viaGroup) ==
    /\ Idle
    /\ last' = [c |-> RunChain(Dispatch(method, p.group, p.path, viaGroup),
                               Context(method, p.group, p.path, header),
                               jwtSecret, now),
                at |-> now, origin |-> jarOrigin, served |-> TRUE]
    /\ UNCHANGED <<pwVars, ruVars, sessVars, acctVars, jwtSecret, jwtTTL, now, users, jar, jarOrigin>>

\* The response is written and the request is over.
Respond ==
    /\ last.served
    /\ last' = NoRequest
    /\ UNCHANGED <<pwVars, ruVars, sessVars, acctVars, jwtSecret, jwtTTL, now, users, jar, jarOrigin>>

LoginPasswords == {Abc123Bang, Pw123456}

PathOf(r) == [group |-> r.group, path |-> r.path]

\* What a pre-flight request carries: no credential, or the held token.
PreflightHeaders(j) == {<<>>, <<Word("Bearer"), Sp, Tok(j)>>}

GateNext ==
    \/ Tick
    \/ \E u \in GateUsers, password \in LoginPasswords :
           LoginRequest(u.email, password)
    \/ \E r \in Routes, header \in HeaderShapes(jar) :
           Serve(r.method, PathOf(r), header, FALSE)
    \/ \E p \in Paths, header \in PreflightHeaders(jar), viaGroup \in BOOLEAN :
           Serve("OPTIONS", p, header, viaGroup)
    \/ Respond

SpecGate == GateInit /\ [][GateNext]_vars

\* The token specification: every way of making a token, presented to
\* GET /api/auth/me.
MeRoute == CHOOSE r \in Routes : r.handler = "GetMe"

TokenNext ==
    \/ Tick
    \/ \E u \in GateUsers, password \in LoginPasswords :
           LoginRequest(u.email, password)
    \/ \E u \in GateUsers, secret \in Secrets : IssuedElsewhere(u, secret)
    \/ \E alg \in Algs :
           \/ Redeclare(alg, Sign(alg, jar.claims, jarOrigin.key))
           \/ Redeclare(alg, jar.sig)
           \/ Redeclare(alg, NoSig)
    \/ \E role \in UserRoles : Tamper(role)
    \/ Serve(MeRoute.method, PathOf(MeRoute),
             <<Word("Bearer"), Sp, Tok(jar)>>, FALSE)
    \/ Respond

SpecToken == GateInit /\ [][TokenNext]_vars

-----------------------------------------------------------------------------
(* The password specification: one password, both copies of the gate.       *)

GateDefaults ==
    /\ jwtSecret = "secret-A"
    /\ jwtTTL = 1
    /\ now = 0
    /\ users = {SeedAdmin}
    /\ jar = NoToken
    /\ jarOrigin = NoOrigin
    /\ last = NoRequest

PwInit ==
    /\ pwIn \in PasswordInputs
    /\ pwUtils = NotCalled
    /\ pwService = NotCalled
    /\ GateDefaults
    /\ AcctDefaults
    /\ RuDefaults
    /\ SessDefaults

CallUtilsValidatePassword ==
    /\ pwUtils = NotCalled
    /\ pwUtils' = UtilsValidatePassword(pwIn)
    /\ UNCHANGED <<pwIn, pwService, gateVars, acctVars, ruVars, sessVars>>

CallServiceValidatePassword ==
    /\ pwService = NotCalled
    /\ pwService' = validatePassword(pwIn)
    /\ UNCHANGED <<pwIn, pwUtils, gateVars, acctVars, ruVars, sessVars>>

PwNext == CallUtilsValidatePassword \/ CallServiceValidatePassword

SpecPassword == PwInit /\ [][PwNext]_vars

\* What the policy asks of a password, stated on the string itself.
LongEnough(p) == Len(p) >= 6
HasSpecial(p) == \E i \in 1..Len(p) : p[i] \in SpecialChars

PolicyAnswer(r, p) ==
    /\ r.ok <=> (LongEnough(p) /\ HasSpecial(p))
    /\ ~LongEnough(p) => r.msg = MsgTooShort
    /\ (LongEnough(p) /\ ~HasSpecial(p)) => r.msg = MsgNoSpecial
    /\ (pwIn = Abc123) => (~r.ok /\ r.msg = MsgNoSpecial)
    /\ (pwIn = Abc123Bang) => r.ok

\* C8: the gate accepts a password iff it has at least 6 bytes and holds a
\* byte of the special-character set; a rejection names the length when the
\* password is too short and the special character otherwise; "abc123" is
\* rejected for the special character, "abc123!" is accepted, and the two
\* copies of the gate agree on every input.
C8_PasswordPolicy ==
    /\ pwUtils # NotCalled => PolicyAnswer(pwUtils, pwIn)
    /\ pwService # NotCalled => PolicyAnswer(pwService, pwIn)
    /\ (pwUtils # NotCalled /\ pwService # NotCalled) => pwUtils = pwService

\* Both copies have answered "abc123": rejected, the special-character reason.
C8_Witness ==
    /\ pwIn = Abc123
    /\ pwUtils # NotCalled
    /\ pwService # NotCalled
    /\ ~pwUtils.ok


-----------------------------------------------------------------------------
(* Properties of the gate (SpecGate) and of the tokens (SpecToken).         *)

Ran(name) == \E i \in 1..Len(last.c.ran) : last.c.ran[i] = name

\* The request entered the protected group's chain.
AtGate == last.served /\ Ran("AuthMiddleware")

\* A handler behind the authentication gate ran.
PastAuth == AtGate /\ Len(last.c.ran) >= 2

\* The endpoint's own handler ran.
EndpointRan ==
    /\ last.served
    /\ last.c.ran # <<>>
    /\ last.c.ran[Len(last.c.ran)] \notin
           {"AuthMiddleware", "RoleMiddleware", "NoRoute"}

\* "Bearer <token>": the scheme word, one space, and a remainder.
BearerForm(h) == Len(h) >= 2 /\ h[1] = Word("Bearer") /\ h[2] = Sp

\* The accepted-role sets main configures, written out.
Accepts(group, role) ==
    \/ group = "admin" /\ role = "admin"
    \/ group = "engineer" /\ role \in {"engineer", "admin"}
    \/ group = "dispatcher" /\ role \in {"dispatcher", "engineer", "admin"}

\* C1: a request that reaches the role stage with a bound role R is admitted
\* (the endpoint's handler runs) iff R is in the endpoint's accepted-role
\* set; otherwise it is answered 403 and the handler never runs. An endpoint
\* accepting only admin rejects a valid engineer or dispatcher token.
C1_RoleGate ==
    (last.served /\ Ran("RoleMiddleware") /\ last.c.keys.set) =>
        LET R == last.c.keys.user_role
            G == last.c.group
        IN  /\ EndpointRan <=> Accepts(G, R)
            /\ ~Accepts(G, R) =>
                   /\ last.c.status = 403
                   /\ last.c.msg = "insufficient permissions"
                   /\ last.c.ran = <<"AuthMiddleware", "RoleMiddleware">>
            /\ (G = "admin" /\ R \in {"engineer", "dispatcher"}) =>
                   last.c.status = 403

\* A valid engineer token is refused by an admin-only endpoint.
C1_Witness ==
    /\ last.served
    /\ last.c.group = "admin"
    /\ last.c.vt.ok
    /\ last.c.keys.user_role = "engineer"
    /\ last.c.status = 403
    /\ ~EndpointRan

\* C2: for a request other than a pre-flight, a handler behind the
\* authentication gate runs only if ValidateToken succeeded on the presented
\* token, and then user_id, user_email and user_role are the subject id,
\* email and role of the validated claims; if validation fails the request
\* is answered 401 "invalid or expired token", nothing is bound and no
\* handler behind the gate runs.
C2_AuthGate ==
    (AtGate /\ last.c.method # "OPTIONS") =>
        /\ PastAuth =>
               /\ BearerForm(last.c.header)
               /\ ValidateToken(SubSeq(last.c.header, 3, Len(last.c.header)),
                                jwtSecret, last.at).ok
               /\ last.c.vt.called /\ last.c.vt.ok
               /\ last.c.keys = Keys(TRUE, last.c.vt.claims.uid,
                                     last.c.vt.claims.email,
                                     last.c.vt.claims.role)
               /\ last.c.vt.claims = last.c.header[3].tok.claims
        /\ (last.c.vt.called /\ ~last.c.vt.ok) =>
               /\ last.c.status = 401
               /\ last.c.msg = "invalid or expired token"
               /\ last.c.keys = NoKeys
               /\ last.c.ran = <<"AuthMiddleware">>

\* A valid token's identity is bound and the endpoint's handler runs.
C2_Witness ==
    /\ AtGate
    /\ last.c.method = "PUT"
    /\ EndpointRan
    /\ last.c.keys.set
    /\ last.c.keys.user_role = "dispatcher"

\* C3: a request other than a pre-flight whose Authorization header is
\* absent or not of the form "Bearer <token>" is answered 401 with the
\* authentication-required messages, and ValidateToken is never called for it.
C3_ExtractionFirst ==
    (AtGate /\ last.c.method # "OPTIONS" /\ ~BearerForm(last.c.header)) =>
        /\ last.c.status = 401
        /\ last.c.msg = IF last.c.header = <<>>
                        THEN "authorization header is required"
                        ELSE "invalid authorization header format"
        /\ ~last.c.vt.called
        /\ last.c.keys = NoKeys
        /\ last.c.ran = <<"AuthMiddleware">>

\* A header with another scheme word is refused before any parsing.
C3_Witness ==
    /\ AtGate
    /\ last.c.method # "OPTIONS"
    /\ Len(last.c.header) = 3
    /\ last.c.header[1] = Word("Basic")
    /\ last.c.header[3].kind = "tok"
    /\ last.c.msg = "invalid authorization header format"
    /\ ~last.c.vt.called

\* C4: an OPTIONS request passes the authentication gate with no credential
\* check and no identity bound; no state-changing handler ever runs for it;
\* a role-gated endpoint rejects it, no role being bound.
C4_PreflightBypass ==
    (last.served /\ last.c.method = "OPTIONS") =>
        /\ \A i \in 1..Len(last.c.ran) : last.c.ran[i] \notin StateChanging
        /\ ~EndpointRan
        /\ AtGate =>
               /\ ~last.c.vt.called
               /\ last.c.keys = NoKeys
               /\ PastAuth
               /\ last.c.group \in RoleGated =>
                      /\ last.c.ran = <<"AuthMiddleware", "RoleMiddleware">>
                      /\ last.c.aborted
                      /\ last.c.status = 401
                      /\ last.c.msg = "user role not found"

\* A pre-flight carrying a token went through the authentication gate of an
\* admin endpoint and was refused at the role stage.
C4_Witness ==
    /\ AtGate
    /\ last.c.method = "OPTIONS"
    /\ BearerForm(last.c.header)
    /\ last.c.group = "admin"
    /\ last.c.msg = "user role not found"

\* The token a request of the token specification presents.
Presented == last.c.header[3].tok

\* The account a token was issued for.
IssuedFor == CHOOSE u \in users : u.id = last.origin.uid

\* The instant of issue plus the time-to-live, in ticks.
IssuePlusTTL == last.origin.at + last.origin.ttl * TicksPerSecond

\* C5: a token GenerateToken made for an identity with ttl > 0, validated
\* before its expiry instant, validates under the secret it was made with,
\* giving the identity's id, email and role, and fails under another secret.
C5_TokenRoundTrip ==
    (last.served /\ last.origin.kind = "issued" /\ last.origin.ttl > 0
       /\ last.at < Presented.claims.exp) =>
        /\ (last.origin.key = jwtSecret) =>
               /\ last.c.vt.ok
               /\ last.c.vt.claims.uid = IssuedFor.id
               /\ last.c.vt.claims.email = IssuedFor.email
               /\ last.c.vt.claims.role = IssuedFor.role
        /\ (last.origin.key # jwtSecret) => ~last.c.vt.ok

\* An issued token came back with the identity it was issued for.
C5_Witness ==
    /\ last.served
    /\ last.origin.kind = "issued"
    /\ last.origin.key = jwtSecret
    /\ last.origin.ttl > 0
    /\ last.at > last.origin.at
    /\ last.c.vt.ok
    /\ last.c.vt.claims.role = "engineer"

\* C6: a token issued at t with time-to-live ttl fails validation at every
\* time from t + ttl on, and no request carrying it gets past the
\* authentication gate.
C6_TokenExpiry ==
    (last.served /\ last.origin.kind = "issued" /\ last.at >= IssuePlusTTL) =>
        /\ last.c.vt.called
        /\ ~last.c.vt.ok
        /\ last.c.status = 401
        /\ last.c.ran = <<"AuthMiddleware">>

\* A token of this server, good at first, presented after its expiry.
C6_Witness ==
    /\ last.served
    /\ last.origin.kind = "issued"
    /\ last.origin.key = jwtSecret
    /\ last.origin.ttl > 0
    /\ last.at >= IssuePlusTTL
    /\ last.c.vt.err = "token is expired"

\* C7: ValidateToken rejects every token whose declared method is outside
\* the HMAC family, without handing the secret to the verifier; it accepts a
\* token only if the declared method is HMAC and the signature is the MAC of
\* the token under the configured secret.
C7_AlgorithmFamily ==
    (last.served /\ last.c.vt.called) =>
        /\ Presented.alg \notin HMACFamily =>
               /\ ~last.c.vt.ok
               /\ ~last.c.vt.keyHanded
        /\ last.c.vt.ok =>
               /\ Presented.alg \in HMACFamily
               /\ Presented.sig =
                      Sign(Presented.alg, Presented.claims, jwtSecret)

\* A token re-declared as RS256 with its HMAC signature kept is rejected
\* before the key is handed out.
C7_Witness ==
    /\ last.served
    /\ Presented.alg = "RS256"
    /\ Presented.sig.alg = "HS256"
    /\ Presented.sig.key = jwtSecret
    /\ last.c.vt.err = "unexpected signing method"
    /\ ~last.c.vt.keyHanded

-----------------------------------------------------------------------------
(* The account specification: registration (AuthService.Register behind     *)
(* AuthHandler.Register) and the administrator's operations (AdminService   *)
(* behind AdminHandler), two requests at a time.                            *)

OneOfRoles == {"admin", "dispatcher", "engineer"}

\* A role switch whose default branch falls back to the engineer role.
RoleOfLenient(role) ==
    IF role = "admin" THEN RoleAdmin
    ELSE IF role = "dispatcher" THEN RoleDispatcher
    ELSE RoleEngineer

\* The switch on req.Role of CreateUser and UpdateUser; "" is its default.
RoleOf(role) ==
    IF role = "admin" THEN RoleAdmin
    ELSE IF role = "dispatcher" THEN RoleDispatcher
    ELSE IF role = "engineer" THEN RoleEngineer
    ELSE ""

ErrExists == "user with this email already exists"
ErrTaken == "email already taken by another user"
ErrNotFound == "user not found"
ErrInvalidRole == "invalid role"
ErrCreate == "failed to create user"
ErrUpdate == "failed to update user"
ErrValidation == "validation_error"

\* The status each handler gives to the service's error.
RegisterStatus(err) ==
    IF err = "" THEN 201 ELSE IF err = ErrExists THEN 409 ELSE 500

CreateUserStatus(err) ==
    IF err = "" THEN 201 ELSE IF err = ErrExists THEN 409 ELSE 500

\* A status mapping that knows the not-found error only.
UpdateUserStatusNoConflict(err) ==
    IF err = "" THEN 200 ELSE IF err = ErrNotFound THEN 404 ELSE 500

UpdateUserStatus(err) ==
    IF err = "" THEN 200
    ELSE IF err = ErrNotFound THEN 404
    ELSE IF err = ErrTaken THEN 409 ELSE 500

DeleteUserStatus(err) ==
    IF err = "" THEN 200 ELSE IF err = ErrNotFound THEN 404 ELSE 500

ChangePasswordStatus(err) ==
    IF err = "" THEN 200 ELSE IF err = ErrNotFound THEN 404 ELSE 500

\* What the response shows of a request: the operation, the email it was
\* about, the status and the service's error.
Finish(r, status, err) ==
    [Request(r.op, "", "", r.email, <<>>, "") EXCEPT
        !.pc = "done", !.status = status, !.err = err]

\* The handler answers with the projection the service returned.
Succeed(r, status, user) ==
    [Finish(r, status, "") EXCEPT !.resp = UserResponse(user)]

\* ShouldBindJSON refused the body: 400 before the service is called.
BadRequest(r) == Finish(r, 400, ErrValidation)

Creates == {"register", "create"}

\* AuthHandler.Register: binding (password min=6), then the service.
BeginRegister(s, name, email, password) ==
    /\ reqs[s].pc = "idle"
    /\ begun < MaxRequests
    /\ begun' = begun + 1
    /\ nextId < MaxNewUsers
    /\ LET r == Request("register", "", name, email, password, "")
       IN  reqs' = [reqs EXCEPT ![s] =
                       IF Len(password) >= 6
                       THEN [r EXCEPT !.pc = "check"]
                       ELSE BadRequest(r)]
    /\ UNCHANGED <<pwVars, ruVars, sessVars, gateVars, nextId>>

\* AuthService.Register up to the insert: the email check; the password is
\* hashed as it is.
RegisterCheck(s) ==
    /\ reqs[s].op = "register"
    /\ reqs[s].pc = "check"
    /\ reqs' = [reqs EXCEPT ![s] =
                   IF ExistsByEmail(users, @.email)
                   THEN Finish(@, RegisterStatus(ErrExists), ErrExists)
                   ELSE [@ EXCEPT !.pc = "create"]]
    /\ UNCHANGED <<pwVars, ruVars, sessVars, gateVars, nextId, begun>>

\* What a client that registered knows: its input and the identifier of the
\* answer.
Registration(name, email, password, id) ==
    [name |-> name, email |-> email, password |-> password, id |-> id]

\* AuthService.Register from the insert on; the token it issues is returned
\* to the client and stored nowhere.
RegisterCreate(s) ==
    LET r == reqs[s]
        user == User("", r.name, r.email, HashPassword(r.password),
                     RoleEngineer)
        res == Create(users, user, UUID(nextId + 1))
    IN  /\ r.op = "register"
        /\ r.pc = "create"
        /\ users' = res.store
        /\ res.ok => nextId < MaxNewUsers
        /\ nextId' = IF res.ok THEN nextId + 1 ELSE nextId
        /\ UNCHANGED begun
        /\ reqs' = [reqs EXCEPT ![s] =
                       IF res.ok
                       THEN Succeed(r, RegisterStatus(""),
                                    [user EXCEPT !.id = UUID(nextId + 1)])
                       ELSE Finish(r, RegisterStatus(ErrCreate), ErrCreate)]
        /\ regs' = IF res.ok
                   THEN regs \cup {Registration(r.name, r.email, r.password,
                                                UUID(nextId + 1))}
                   ELSE regs
        /\ UNCHANGED <<pwVars, ruVars, me, seen, jwtSecret, jwtTTL, now, jar,
                       jarOrigin, last>>

\* AdminHandler.CreateUser: binding (password min=6, role oneof).
BeginCreateUser(s, name, email, password, role) ==
    /\ reqs[s].pc = "idle"
    /\ begun < MaxRequests
    /\ begun' = begun + 1
    /\ nextId < MaxNewUsers
    /\ LET r == Request("create", "", name, email, password, role)
       IN  reqs' = [reqs EXCEPT ![s] =
                       IF Len(password) >= 6 /\ role \in OneOfRoles
                       THEN [r EXCEPT !.pc = "check"]
                       ELSE BadRequest(r)]
    /\ UNCHANGED <<pwVars, ruVars, sessVars, gateVars, nextId>>

\* AdminService.CreateUser entered with a request no binding has screened:
\* the service's own checks meet every password and every role string.
CallCreateUser(s, name, email, password, role) ==
    /\ reqs[s].pc = "idle"
    /\ begun < MaxRequests
    /\ begun' = begun + 1
    /\ nextId < MaxNewUsers
    /\ reqs' = [reqs EXCEPT ![s] =
                   [Request("create", "", name, email, password, role) EXCEPT
                       !.pc = "check"]]
    /\ UNCHANGED <<pwVars, ruVars, sessVars, gateVars, nextId>>

\* AdminService.CreateUser up to the insert: the email check, the password
\* policy, the role switch.
CreateUserCheck(s) ==
    LET r == reqs[s]
        policy == validatePassword(r.password)
        err == IF ExistsByEmail(users, r.email) THEN ErrExists
               ELSE IF ~policy.ok THEN policy.msg
               ELSE IF RoleOf(r.role) = "" THEN ErrInvalidRole
               ELSE ""
    IN  /\ r.op = "create"
        /\ r.pc = "check"
        /\ reqs' = [reqs EXCEPT ![s] =
                       IF err = "" THEN [r EXCEPT !.pc = "create"]
                       ELSE Finish(r, CreateUserStatus(err), err)]
        /\ UNCHANGED <<pwVars, ruVars, sessVars, gateVars, nextId, begun>>

\* AdminService.CreateUser from the insert on.
CreateUserCreate(s) ==
    LET r == reqs[s]
        user == User("", r.name, r.email, HashPassword(r.password),
                     RoleOf(r.role))
        res == Create(users, user, UUID(nextId + 1))
    IN  /\ r.op = "create"
        /\ r.pc = "create"
        /\ users' = res.store
        /\ res.ok => nextId < MaxNewUsers
        /\ nextId' = IF res.ok THEN nextId + 1 ELSE nextId
        /\ UNCHANGED begun
        /\ reqs' = [reqs EXCEPT ![s] =
                       IF res.ok
                       THEN Succeed(r, CreateUserStatus(""),
                                    [user EXCEPT !.id = UUID(nextId + 1)])
                       ELSE Finish(r, CreateUserStatus(ErrCreate), ErrCreate)]
        /\ UNCHANGED <<pwVars, ruVars, sessVars, jwtSecret, jwtTTL, now, jar, jarOrigin, last>>

\* AdminHandler.UpdateUser: binding (role oneof), then AdminService.UpdateUser
\* up to FindByID.
BeginUpdateUser(s, id, name, email, role) ==
    /\ reqs[s].pc = "idle"
    /\ begun < MaxRequests
    /\ begun' = begun + 1
    /\ LET r == Request("update", id, name, email, <<>>, role)
       IN  reqs' = [reqs EXCEPT ![s] =
                       IF role \in OneOfRoles
                       THEN [r EXCEPT !.pc = "find"]
                       ELSE BadRequest(r)]
    /\ UNCHANGED <<pwVars, ruVars, sessVars, gateVars, nextId>>

\* AdminService.UpdateUser entered with a request no binding has screened.
CallUpdateUser(s, id, name, email, role) ==
    /\ reqs[s].pc = "idle"
    /\ begun < MaxRequests
    /\ begun' = begun + 1
    /\ reqs' = [reqs EXCEPT ![s] =
                   [Request("update", id, name, email, <<>>, role) EXCEPT
                       !.pc = "find"]]
    /\ UNCHANGED <<pwVars, ruVars, sessVars, gateVars, nextId>>

\* AdminService.UpdateUser: FindByID; the email check is due only when the
\* email changes, and the role switch follows at once when it is not.
UpdateUserFind(s) ==
    LET r == reqs[s]
        found == FindByID(users, r.id)
        user == CHOOSE u \in found : TRUE
    IN  /\ r.op = "update"
        /\ r.pc = "find"
        /\ reqs' = [reqs EXCEPT ![s] =
                       IF found = {}
                       THEN Finish(r, UpdateUserStatus(ErrNotFound), ErrNotFound)
                       ELSE IF r.email # user.email
                       THEN [r EXCEPT !.user = user, !.pc = "check"]
                       ELSE IF RoleOf(r.role) = ""
                       THEN Finish(r, UpdateUserStatus(ErrInvalidRole),
                                   ErrInvalidRole)
                       ELSE [r EXCEPT !.user = user, !.pc = "save"]]
        /\ UNCHANGED <<pwVars, ruVars, sessVars, gateVars, nextId, begun>>

\* AdminService.UpdateUser: ExistsByEmail on the new email, the role switch.
UpdateUserCheck(s) ==
    LET r == reqs[s]
        err == IF ExistsByEmail(users, r.email) THEN ErrTaken
               ELSE IF RoleOf(r.role) = "" THEN ErrInvalidRole
               ELSE ""
    IN  /\ r.op = "update"
        /\ r.pc = "check"
        /\ reqs' = [reqs EXCEPT ![s] =
                       IF err = "" THEN [r EXCEPT !.pc = "save"]
                       ELSE Finish(r, UpdateUserStatus(err), err)]
        /\ UNCHANGED <<pwVars, ruVars, sessVars, gateVars, nextId, begun>>

\* AdminService.UpdateUser: name, email and role are set on the row that was
\* read and the whole row is saved.
UpdateUserSave(s) ==
    LET r == reqs[s]
        user == [r.user EXCEPT !.name = r.name, !.email = r.email,
                               !.role = RoleOf(r.role)]
        res == Update(users, user)
    IN  /\ r.op = "update"
        /\ r.pc = "save"
        /\ users' = res.store
        /\ reqs' = [reqs EXCEPT ![s] =
                       IF res.ok
                       THEN Succeed(r, UpdateUserStatus(""), user)
                       ELSE Finish(r, UpdateUserStatus(ErrUpdate), ErrUpdate)]
        /\ UNCHANGED <<pwVars, ruVars, sessVars, jwtSecret, jwtTTL, now, jar, jarOrigin, last,
                       nextId, begun>>

\* AdminHandler.DeleteUser.
BeginDeleteUser(s, id) ==
    /\ reqs[s].pc = "idle"
    /\ begun < MaxRequests
    /\ begun' = begun + 1
    /\ reqs' = [reqs EXCEPT ![s] =
                   [Request("delete", id, "", "", <<>>, "") EXCEPT
                       !.pc = "find"]]
    /\ UNCHANGED <<pwVars, ruVars, sessVars, gateVars, nextId>>

\* AdminService.DeleteUser: FindByID.
DeleteUserFind(s) ==
    LET r == reqs[s]
    IN  /\ r.op = "delete"
        /\ r.pc = "find"
        /\ reqs' = [reqs EXCEPT ![s] =
                       IF FindByID(users, r.id) = {}
                       THEN Finish(r, DeleteUserStatus(ErrNotFound), ErrNotFound)
                       ELSE [r EXCEPT !.pc = "delete"]]
        /\ UNCHANGED <<pwVars, ruVars, sessVars, gateVars, nextId, begun>>

\* AdminService.DeleteUser: Delete by id; deleting no row is no error.
DeleteUserDelete(s) ==
    /\ reqs[s].op = "delete"
    /\ reqs[s].pc = "delete"
    /\ users' = Delete(users, reqs[s].id)
    /\ reqs' = [reqs EXCEPT ![s] = Finish(@, DeleteUserStatus(""), "")]
    /\ UNCHANGED <<pwVars, ruVars, sessVars, jwtSecret, jwtTTL, now, jar, jarOrigin, last,
                   nextId, begun>>

\* AdminHandler.ChangePassword: binding (min=6) and the handler's own length
\* check.
BeginChangePassword(s, id, password) ==
    /\ reqs[s].pc = "idle"
    /\ begun < MaxRequests
    /\ begun' = begun + 1
    /\ LET r == Request("password", id, "", "", password, "")
       IN  reqs' = [reqs EXCEPT ![s] =
                       IF Len(password) >= 6
                       THEN [r EXCEPT !.pc = "find"]
                       ELSE BadRequest(r)]
    /\ UNCHANGED <<pwVars, ruVars, sessVars, gateVars, nextId>>

\* AdminService.ChangeUserPassword: FindByID, then the password policy.
ChangePasswordFind(s) ==
    LET r == reqs[s]
        found == FindByID(users, r.id)
        policy == validatePassword(r.password)
    IN  /\ r.op = "password"
        /\ r.pc = "find"
        /\ reqs' = [reqs EXCEPT ![s] =
                       IF found = {}
                       THEN Finish(r, ChangePasswordStatus(ErrNotFound),
                                   ErrNotFound)
                       ELSE IF ~policy.ok
                       THEN Finish(r, ChangePasswordStatus(policy.msg),
                                   policy.msg)
                       ELSE [r EXCEPT !.user = CHOOSE u \in found : TRUE,
                                      !.pc = "save"]]
        /\ UNCHANGED <<pwVars, ruVars, sessVars, gateVars, nextId, begun>>

\* AdminService.ChangeUserPassword: the hash is set on the row that was read
\* and the whole row is saved.
ChangePasswordSave(s) ==
    LET r == reqs[s]
        user == [r.user EXCEPT !.hash = HashPassword(r.password)]
        res == Update(users, user)
    IN  /\ r.op = "password"
        /\ r.pc = "save"
        /\ users' = res.store
        /\ reqs' = [reqs EXCEPT ![s] =
                       IF res.ok
                       THEN Finish(r, ChangePasswordStatus(""), "")
                       ELSE Finish(r, ChangePasswordStatus(ErrUpdate),
                                   ErrUpdate)]
        /\ UNCHANGED <<pwVars, ruVars, sessVars, jwtSecret, jwtTTL, now, jar, jarOrigin, last,
                       nextId, begun>>

\* The response is written and the goroutine ends.
AcctRespond(s) ==
    /\ reqs[s].pc = "done"
    /\ reqs' = [reqs EXCEPT ![s] = NoReq]
    /\ UNCHANGED <<pwVars, ruVars, sessVars, gateVars, nextId, begun>>

AcctEmails == {"admin@sez.com", "Admin@sez.com"}
AcctNames == {"Ann"}
AcctPasswords == {Abc123Bang, Abc123, <<"a", "b", "c">>}
RoleInputs == {"dispatcher", "guest"}
AcctIds == {SeedAdmin.id} \cup {UUID(n) : n \in 1..MaxNewUsers}

AcctInit ==
    /\ PwDefaults
    /\ GateDefaults
    /\ AcctDefaults
    /\ RuDefaults
    /\ SessDefaults

AcctNext ==
    \E s \in Slots :
        \/ \E name \in AcctNames, email \in AcctEmails,
              password \in AcctPasswords :
               BeginRegister(s, name, email, password)
        \/ RegisterCheck(s)
        \/ RegisterCreate(s)
        \/ \E name \in AcctNames, email \in AcctEmails,
              password \in AcctPasswords, role \in RoleInputs :
               \/ BeginCreateUser(s, name, email, password, role)
               \/ CallCreateUser(s, name, email, password, role)
        \/ CreateUserCheck(s)
        \/ CreateUserCreate(s)
        \/ \E id \in AcctIds, name \in AcctNames, email \in AcctEmails,
              role \in RoleInputs :
               \/ BeginUpdateUser(s, id, name, email, role)
               \/ CallUpdateUser(s, id, name, email, role)
        \/ UpdateUserFind(s)
        \/ UpdateUserCheck(s)
        \/ UpdateUserSave(s)
        \/ \E id \in AcctIds : BeginDeleteUser(s, id)
        \/ DeleteUserFind(s)
        \/ DeleteUserDelete(s)
        \/ \E id \in AcctIds, password \in AcctPasswords :
               BeginChangePassword(s, id, password)
        \/ ChangePasswordFind(s)
        \/ ChangePasswordSave(s)
        \/ AcctRespond(s)

SpecAccounts == AcctInit /\ [][AcctNext]_vars

-----------------------------------------------------------------------------
(* Properties of the accounts (SpecAccounts).                               *)

\* An account with this email is in the table.
Stored(email) == \E u \in users : u.email = email

\* C9: in every reachable state, whatever register, create, update, delete
\* and change-password requests ran and however their store calls were
\* interleaved, no two rows of the users table have the same email, emails
\* being compared byte for byte.
C9_EmailUnique ==
    \A u \in users : \A v \in users : u.email = v.email => u = v

\* Two accounts are stored and a create that had passed its email check was
\* refused by the store, the other request having stored that email first.
C9_Witness ==
    /\ Cardinality(users) >= 2
    /\ \E s \in Slots :
           /\ reqs[s].op \in Creates
           /\ reqs[s].pc = "done"
           /\ reqs[s].err = ErrCreate
           /\ Stored(reqs[s].email)

\* C10: a create request (registration or admin create) whose email check
\* meets a stored account with its email ends with status 409 Conflict, and
\* neither that step nor anything the request does afterwards adds, removes
\* or changes a row.
C10_DuplicateEmail ==
    [][\A s \in Slots :
          /\ ( /\ reqs[s].op \in Creates
               /\ reqs[s].pc = "check"
               /\ reqs'[s] # reqs[s]
               /\ Stored(reqs[s].email) )
             => /\ reqs'[s].pc = "done"
                /\ reqs'[s].status = 409
                /\ reqs'[s].err = ErrExists
                /\ users' = users
          /\ ( /\ reqs[s].op \in Creates
               /\ reqs[s].status = 409
               /\ reqs'[s] # reqs[s] )
             => users' = users]_vars

\* A create was answered 409 and the account with its email is stored.
C10_Witness ==
    \E s \in Slots :
        /\ reqs[s].op \in Creates
        /\ reqs[s].pc = "done"
        /\ reqs[s].status = 409
        /\ reqs[s].err = ErrExists
        /\ Stored(reqs[s].email)

Ids(store) == {u.id : u \in store}

\* The step of request s is one of operation op, taken at one of the places
\* pcs of that operation.
StepOf(s, op, pcs) ==
    /\ reqs[s].op = op
    /\ reqs[s].pc \in pcs
    /\ reqs'[s] # reqs[s]

Others(store, id) == {u \in store : u.id # id}

\* C12: every step of an admin update either goes on or ends the request.
\* A request for an id no row has ends with the not-found error and 404; a
\* request whose email differs from the row's and is stored ends with the
\* email-taken error and 409, and only such a request ends with 409; a role
\* string outside the enumeration ends with the invalid-role error.  Every
\* request that ends with an error has left the users table as it was.  The
\* write of a request that ends without error stores the row it read with
\* the request's name, email and role, its id and password hash as read, and
\* leaves every row of another id as it was.
C12_AdminUpdate ==
    [][\A s \in Slots :
          StepOf(s, "update", {"find", "check", "save"}) =>
            LET r == reqs[s]
                q == reqs'[s]
                found == {u \in users : u.id = r.id}
            IN  /\ r.pc \in {"find", "check"} => users' = users
                /\ (r.pc = "find" /\ found = {}) =>
                      /\ q.pc = "done"
                      /\ q.err = ErrNotFound
                      /\ q.status = 404
                /\ (r.pc = "find" /\ found # {}) =>
                      \A u \in found :
                         IF r.email # u.email
                         THEN q.pc = "check" /\ q.user = u
                         ELSE IF r.role \notin UserRoles
                         THEN q.pc = "done" /\ q.err = ErrInvalidRole
                         ELSE q.pc = "save" /\ q.user = u
                /\ r.pc = "check" =>
                      /\ r.email # r.user.email
                      /\ IF Stored(r.email)
                         THEN q.pc = "done" /\ q.err = ErrTaken
                         ELSE IF r.role \notin UserRoles
                         THEN q.pc = "done" /\ q.err = ErrInvalidRole
                         ELSE q.pc = "save"
                /\ (q.pc = "done" /\ q.status = 409) =
                      (r.pc = "check" /\ Stored(r.email))
                /\ (q.pc = "done" /\ q.err # "") =>
                      /\ users' = users
                      /\ q.status \in {404, 409, 500}
                      /\ q.resp = NoResp
                /\ r.pc = "save" =>
                      /\ q.pc = "done"
                      /\ Others(users', r.id) = Others(users, r.id)
                      /\ q.err = "" =>
                            LET row == [id |-> r.user.id, name |-> r.name,
                                        email |-> r.email,
                                        hash |-> r.user.hash, role |-> r.role]
                            IN  /\ users' = Others(users, r.id) \cup {row}
                                /\ r.user.id = r.id
                                /\ q.status = 200
                                /\ q.resp = UserResponse(row)]_vars

\* An update of the seeded administrator has ended with 200: the row has the
\* request's name, another email than before and the role "dispatcher", and
\* the id and password hash it was seeded with.
C12_Witness ==
    \E s \in Slots :
        /\ reqs[s].op = "update"
        /\ reqs[s].pc = "done"
        /\ reqs[s].status = 200
        /\ \E u \in users :
               /\ UserResponse(u) = reqs[s].resp
               /\ u.id = SeedAdmin.id
               /\ u.name # SeedAdmin.name
               /\ u.email # SeedAdmin.email
               /\ u.role = RoleDispatcher
               /\ u.hash = SeedAdmin.hash

\* C13: an admin delete of an id no row has ends with the not-found error
\* and 404 and changes no table; the delete of an existing account removes
\* the row of that id and no other row, and no step of the request changes
\* the operation records, whoever their operator names.
C13_AdminDelete ==
    [][\A s \in Slots :
          StepOf(s, "delete", {"find", "delete"}) =>
            LET r == reqs[s]
                q == reqs'[s]
                found == {u \in users : u.id = r.id}
            IN  /\ records' = records
                /\ r.pc = "find" =>
                      /\ users' = users
                      /\ IF found = {}
                         THEN /\ q.pc = "done"
                              /\ q.err = ErrNotFound
                              /\ q.status = 404
                         ELSE q.pc = "delete"
                /\ r.pc = "delete" =>
                      /\ users' = Others(users, r.id)
                      /\ users \ users' = found
                      /\ q.pc = "done"
                      /\ q.err = ""
                      /\ q.status = 200]_vars

\* The seeded administrator has been deleted, the other accounts have not,
\* and the ledger still holds the record the administrator made.
C13_Witness ==
    /\ SeedAdmin.id \notin Ids(users)
    /\ users # {}
    /\ \E s \in Slots :
           /\ reqs[s].op = "delete"
           /\ reqs[s].pc = "done"
           /\ reqs[s].status = 200
    /\ \E rec \in records : rec.operator = SeedAdmin.name

\* C14: a change-password request for an id no row has ends with the
\* not-found error; one whose password fails the policy ends with the
\* policy's message and writes nothing; the write of a request that ends
\* without error changes, of the row stored under that id immediately before
\* the write, the password hash and nothing else, whatever other request ran
\* between its read and its write, and leaves the other rows as they were.
C14_ChangePassword ==
    [][\A s \in Slots :
          StepOf(s, "password", {"find", "save"}) =>
            LET r == reqs[s]
                q == reqs'[s]
                found == {u \in users : u.id = r.id}
            IN  /\ r.pc = "find" =>
                      /\ users' = users
                      /\ found = {} => q.pc = "done" /\ q.err = ErrNotFound
                      /\ (found # {} /\ ~(LongEnough(r.password)
                                          /\ HasSpecial(r.password))) =>
                            /\ q.pc = "done"
                            /\ q.err \in {MsgTooShort, MsgNoSpecial}
                /\ (r.pc = "save" /\ q.err = "") =>
                      /\ Others(users', r.id) = Others(users, r.id)
                      /\ \A u \in found :
                            users' = Others(users, r.id) \cup
                                {[u EXCEPT !.hash = HashPassword(r.password)]}
          ]_vars
-----------------------------------------------------------------------------
(* The session specification: registration, login and GET /api/auth/me of   *)
(* the public API, with no administrator at work.                           *)

ErrCredentials == "invalid email or password"

\* AuthHandler.Login: binding (email and password required), the service,
\* and the mapping of its error to a status.
AuthHandlerLogin(store, email, password, secret, ttl, t) ==
    IF email = "" \/ password = <<>>
    THEN Answer(400, ErrValidation, "Invalid request data", "required",
                NoResp, NoToken)
    ELSE
      LET r == Login(store, email, password, secret, ttl, t)
      IN  IF r.err = ErrCredentials
          THEN Answer(401, "unauthorized", "Invalid email or password",
                      r.err, NoResp, NoToken)
          ELSE IF r.err # ""
          THEN Answer(500, "internal_server_error", "Failed to login",
                      r.err, NoResp, NoToken)
          ELSE Answer(200, "", "", "",
                      UserResponse(CHOOSE u \in FindByID(store, r.uid) : TRUE),
                      r.token)

GetResult(err, resp) == [err |-> err, resp |-> resp]

\* A lookup whose condition is inverted: it answers with a row that has
\* another identifier.
GetCurrentUserOtherRow(store, userID) ==
    LET found == {u \in store : u.id # userID}
    IN  IF found = {} THEN GetResult(ErrNotFound, NoResp)
        ELSE GetResult("", UserResponse(CHOOSE u \in found : TRUE))

\* AuthService.GetCurrentUser.
GetCurrentUser(store, userID) ==
    LET found == FindByID(store, userID)
    IN  IF found = {} THEN GetResult(ErrNotFound, NoResp)
        ELSE GetResult("", UserResponse(CHOOSE u \in found : TRUE))

\* AuthHandler.GetMe on the context the gate passed on.
GetMe(c, store) ==
    IF ~c.keys.set
    THEN Answer(401, "unauthorized", "User not authenticated", "",
                NoResp, NoToken)
    ELSE
      LET r == GetCurrentUser(store, c.keys.user_id)
      IN  IF r.err = ErrNotFound
          THEN Answer(404, "not_found", "User not found", r.err,
                      NoResp, NoToken)
          ELSE IF r.err # ""
          THEN Answer(500, "internal_server_error",
                      "Failed to get user data", r.err, NoResp, NoToken)
          ELSE Answer(200, "", "", "", r.resp, NoToken)

\* A login refused on its credentials, as the client sees it; kind tells
\* whether the email had an account.
Refusal(kind, out) == [kind |-> kind, out |-> out]

\* POST /api/auth/login; the client keeps the token of a successful login.
PostLogin(email, password) ==
    LET a == AuthHandlerLogin(users, email, password, jwtSecret, jwtTTL, now)
        bound == email # "" /\ password # <<>>
        match == \E u \in users : u.email = email /\ u.hash.of = password
    IN  /\ Idle
        /\ jar' = IF a.status = 200 THEN a.token ELSE jar
        /\ jarOrigin' = IF a.status = 200
                        THEN Origin("issued", jwtSecret, jwtTTL, now, a.resp.id)
                        ELSE jarOrigin
        /\ seen' = IF bound /\ ~match
                   THEN seen \cup {Refusal(IF Stored(email) THEN "wrong"
                                           ELSE "absent", a)}
                   ELSE seen
        /\ UNCHANGED <<pwVars, ruVars, acctVars, jwtSecret, jwtTTL, now, users,
                       last, regs, me>>

\* GET /api/auth/me with the held token: the gate, then the handler.
GetMeRequest ==
    LET c == RunChain(Dispatch(MeRoute.method, MeRoute.group, MeRoute.path,
                               FALSE),
                      Context(MeRoute.method, MeRoute.group, MeRoute.path,
                              <<Word("Bearer"), Sp, Tok(jar)>>),
                      jwtSecret, now)
    IN  /\ Idle
        /\ last' = [c |-> c, at |-> now, origin |-> jarOrigin, served |-> TRUE]
        /\ me' = IF c.aborted
                 THEN Answer(c.status, c.msg, "", "", NoResp, NoToken)
                 ELSE GetMe(c, users)
        /\ UNCHANGED <<pwVars, ruVars, acctVars, jwtSecret, jwtTTL, now, users,
                       jar, jarOrigin, regs, seen>>

LoginEmails == AcctEmails \cup {""}

SessPasswords == {Abc123, Pw123456}

\* Registrations arrive one after the other here; two at a time are the
\* matter of the accounts specification.
SessSlot == "r1"

SessInit ==
    /\ PwDefaults
    /\ AcctDefaults
    /\ RuDefaults
    /\ SessDefaults
    /\ jwtSecret = "secret-A"
    /\ jwtTTL \in 0..MaxTTL
    /\ now = 0
    /\ users = {SeedAdmin}
    /\ jar = NoToken
    /\ jarOrigin = NoOrigin
    /\ last = NoRequest

SessNext ==
    \/ Tick
    \/ \E name \in AcctNames, email \in AcctEmails,
          password \in SessPasswords \cup {<<"a", "b", "c">>} :
           BeginRegister(SessSlot, name, email, password)
    \/ RegisterCheck(SessSlot)
    \/ RegisterCreate(SessSlot)
    \/ AcctRespond(SessSlot)
    \/ \E email \in LoginEmails, password \in SessPasswords \cup {<<>>} :
           PostLogin(email, password)
    \/ GetMeRequest
    \/ Respond

SpecSession == SessInit /\ [][SessNext]_vars

\* C15: login does not tell whether an email has an account. Every login
\* refused on its credentials, be it for an email without an account or for
\* a wrong password of an existing account, gets the same answer: status
\* 401, error kind "unauthorized", the text "invalid email or password", no
\* account data and no token.
C15_LoginNoLeak ==
    /\ \A a \in seen :
           /\ a.out.status = 401
           /\ a.out.error = "unauthorized"
           /\ a.out.details = "invalid email or password"
           /\ a.out.resp = NoResp
           /\ a.out.token = NoToken
    /\ \A a, b \in seen : a.out = b.out

\* Both kinds of refusal have happened.
C15_Witness ==
    /\ \E a \in seen : a.kind = "absent"
    /\ \E a \in seen : a.kind = "wrong"

\* The token in the jar was issued by a login of registration g.
LoggedInAs(g) ==
    /\ jarOrigin.kind = "issued"
    /\ jarOrigin.uid = g.id

\* C16: registration, login, current identity. Every account registration
\* created has role engineer. After a successful registration with name n,
\* email e and password p, a login with (e, p) succeeds and its token,
\* validated before it expires, carries the account's id, e and "engineer";
\* GET /api/auth/me with the token of such a login answers 200 with the
\* public projection of the account, whose name is n.
C16_RegisterLoginGetMe ==
    /\ \A u \in users : u.id # SeedAdmin.id => u.role = "engineer"
    /\ \A g \in regs :
        LET a == AuthHandlerLogin(users, g.email, g.password, jwtSecret,
                                  jwtTTL, now)
        IN  /\ a.status = 200
            /\ a.resp.id = g.id
            /\ \A t \in now..MaxTime :
                LET v == ValidateToken(<<Tok(a.token)>>, jwtSecret, t)
                IN  /\ t < a.token.claims.exp => v.ok
                    /\ v.ok => v.claims = Claims(g.id, g.email, "engineer",
                                                 a.token.claims.iat,
                                                 a.token.claims.exp)
            /\ LoggedInAs(g) => /\ jar.claims.uid = g.id
                                /\ jar.claims.email = g.email
                                /\ jar.claims.role = "engineer"
            /\ (last.served /\ LoggedInAs(g) /\ last.c.keys.set) =>
                   /\ last.c.keys.user_id = g.id
                   /\ me.status = 200
                   /\ me.resp = [id |-> g.id, name |-> g.name,
                                 email |-> g.email, role |-> "engineer"]

\* A registered client has logged in and asked who it is.
C16_Witness ==
    \E g \in regs :
        /\ LoggedInAs(g)
        /\ last.served
        /\ last.c.keys.set
        /\ me.status = 200
        /\ me.resp.name = g.name
-----------------------------------------------------------------------------
(* The cell specification: status updates and info edits (RuHandler,        *)
(* RuService), each request in its own goroutine, while the clock runs.     *)

\* strconv.Atoi of the :cellId path parameter.
Atoi(str) ==
    CASE str = "0" -> [ok |-> TRUE, n |-> 0]
      [] str = "-1" -> [ok |-> TRUE, n |-> -1]
      [] str = "1" -> [ok |-> TRUE, n |-> 1]
      [] str = "2" -> [ok |-> TRUE, n |-> 2]
      [] str = "7" -> [ok |-> TRUE, n |-> 7]
      [] OTHER -> [ok |-> FALSE, n |-> 0]

ErrCellNotFound == "cell not found: failed to get cell by ID: record not found"

ErrInvalidCellId == "invalid_cell_id"

\* RuHandler.UpdateCellStatus and UpdateCellInfo: the status of a service
\* error.
CellStatusCode(err) ==
    IF err = "" THEN 200
    ELSE IF err = "cell not found" THEN 404
    ELSE 500

\* What is kept of a request once it is answered: the operation, the
\* address, the row it had read, the status and the error.
FinishCell(r, code, err) ==
    [CellRequest(r.op, r.ruID, r.cellID, "", NoFlag, "", "", "") EXCEPT
        !.pc = "done", !.read = r.read, !.code = code, !.err = err]

\* How many requests on cells arrive in a run.
MaxCellRequests == 2

\* The path parameter is not a number, or ShouldBindJSON refused the body.
BeginCell(s, r, idStr, bodyOk) ==
    /\ cellReqs[s].pc = "idle"
    /\ begun < MaxCellRequests
    /\ begun' = begun + 1
    /\ cellReqs' = [cellReqs EXCEPT ![s] =
                       IF ~Atoi(idStr).ok
                       THEN FinishCell(r, 400, ErrInvalidCellId)
                       ELSE IF ~bodyOk
                       THEN FinishCell(r, 400, ErrValidation)
                       ELSE [r EXCEPT !.pc = "find"]]
    /\ UNCHANGED <<pwVars, sessVars, gateVars, unitVars, records, cells, reqs, nextId>>

\* RuHandler.UpdateCellStatus up to the service call: UpdateCellStatusRequest
\* has no binding rules, every JSON object is accepted.
BeginUpdateCellStatus(s, ruID, idStr, status, flag) ==
    BeginCell(s, CellRequest("status", ruID, Atoi(idStr).n, status, flag,
                             "", "", ""),
              idStr, TRUE)

\* RuHandler.UpdateCellInfo up to the service call: name, description and
\* voltage are required.
BeginUpdateCellInfo(s, ruID, idStr, name, description, voltage) ==
    BeginCell(s, CellRequest("info", ruID, Atoi(idStr).n, "", NoFlag,
                             name, description, voltage),
              idStr, name # "" /\ description # "" /\ voltage # "")

\* A status change that stamps the grounding time whether or not a flag came.
SetStatusAlwaysGrounds(cell, req, t) ==
    [cell EXCEPT !.status = req.status,
                 !.isGrounded = req.flag.val,
                 !.lastGroundedOperation = Stamp(FALSE, Format(t))]

\* RuService.UpdateCellStatus, lines 160-165: the status and, when the flag
\* is there, the grounding and its time.
SetStatus(cell, req, t) ==
    IF req.flag.set
    THEN [cell EXCEPT !.status = req.status,
                      !.isGrounded = req.flag.val,
                      !.lastGroundedOperation = Stamp(FALSE, Format(t))]
    ELSE [cell EXCEPT !.status = req.status]

\* RuService.UpdateCellStatus, lines 167-168.
StampOperation(cell, t) ==
    [cell EXCEPT !.lastOperation = Stamp(FALSE, Format(t))]

\* An edit that takes the status from its body as well, where there is none.
SetInfoAndStatus(cell, req) ==
    [cell EXCEPT !.name = req.name, !.description = req.description,
                 !.voltage = req.voltage, !.status = req.status]

\* RuService.UpdateCellInfo, lines 184-186.
SetInfo(cell, req) ==
    [cell EXCEPT !.name = req.name, !.description = req.description,
                 !.voltage = req.voltage]

\* GetCellByID and the changes the service makes to the row it holds.
CellFind(s, op) ==
    LET r == cellReqs[s]
        found == GetCellByID(cells, r.cellID, r.ruID)
        row == CHOOSE c \in found : TRUE
    IN  /\ r.op = op
        /\ r.pc = "find"
        /\ cellReqs' = [cellReqs EXCEPT ![s] =
               IF found = {}
               THEN FinishCell(r, CellStatusCode(ErrCellNotFound),
                               ErrCellNotFound)
               ELSE [r EXCEPT !.pc = "save", !.read = row,
                              !.cell = IF op = "status"
                                       THEN SetStatus(row, r, now)
                                       ELSE SetInfo(row, r)]]
        /\ UNCHANGED <<pwVars, sessVars, gateVars, acctVars, unitVars, records, cells>>

UpdateCellStatusFind(s) == CellFind(s, "status")

UpdateCellInfoFind(s) == CellFind(s, "info")

\* RuService.UpdateCellStatus from line 167 on: the operation time, then the
\* whole row is saved.
UpdateCellStatusSave(s) ==
    LET r == cellReqs[s]
        row == StampOperation(r.cell, now)
    IN  /\ r.op = "status"
        /\ r.pc = "save"
        /\ cells' = UpdateCell(cells, row)
        /\ cellReqs' = [cellReqs EXCEPT ![s] = FinishCell(r, 200, "")]
        /\ UNCHANGED <<pwVars, sessVars, gateVars, acctVars, unitVars, records>>

\* An edit that updates the three columns of the stored row and no other.
UpdateCellInfoSaveColumns(s) ==
    LET r == cellReqs[s]
        stored == {c \in cells : c.id = r.cellID}
        row == IF stored = {} THEN r.cell
               ELSE [(CHOOSE c \in stored : TRUE) EXCEPT
                        !.name = r.cell.name,
                        !.description = r.cell.description,
                        !.voltage = r.cell.voltage]
    IN  /\ r.op = "info"
        /\ r.pc = "save"
        /\ cells' = UpdateCell(cells, row)
        /\ cellReqs' = [cellReqs EXCEPT ![s] = FinishCell(r, 200, "")]
        /\ UNCHANGED <<pwVars, sessVars, gateVars, acctVars, unitVars, records>>

\* RuService.UpdateCellInfo from line 189 on.
UpdateCellInfoSave(s) ==
    LET r == cellReqs[s]
    IN  /\ r.op = "info"
        /\ r.pc = "save"
        /\ cells' = UpdateCell(cells, r.cell)
        /\ cellReqs' = [cellReqs EXCEPT ![s] = FinishCell(r, 200, "")]
        /\ UNCHANGED <<pwVars, sessVars, gateVars, acctVars, unitVars, records>>

\* The response is written and the goroutine ends.
CellRespond(s) ==
    /\ cellReqs[s].pc = "done"
    /\ cellReqs' = [cellReqs EXCEPT ![s] = NoCellReq]
    /\ UNCHANGED <<pwVars, sessVars, gateVars, acctVars, unitVars, records, cells>>

CellRus == {"tp-1i", "tp-1l"}

CellIdParams == {"1", "x"}

\* The status of a request body: a member of the enumeration, or the empty
\* string of a body without the field (no binding rule refuses either, nor
\* any other string). The empty body {} is the one sent without a status.
StatusInputs == {CellStatusOFF, CellStatusON, ""}

FlagInputs == {NoFlag, Flag(TRUE, TRUE), Flag(TRUE, FALSE)}

CellNames == {"Feeder 1", ""}

CellInit ==
    /\ PwDefaults
    /\ GateDefaults
    /\ AcctDefaults
    /\ RuDefaults
    /\ SessDefaults

CellNext ==
    \/ Tick
    \/ \E s \in Slots :
        \/ \E ruID \in CellRus, idStr \in CellIdParams :
            \/ \E status \in StatusInputs, flag \in FlagInputs :
                   /\ status = "" => flag = NoFlag
                   /\ BeginUpdateCellStatus(s, ruID, idStr, status, flag)
            \/ \E name \in CellNames :
                   BeginUpdateCellInfo(s, ruID, idStr, name, "Spare", "6 kV")
        \/ UpdateCellStatusFind(s)
        \/ UpdateCellStatusSave(s)
        \/ UpdateCellInfoFind(s)
        \/ UpdateCellInfoSave(s)
        \/ CellRespond(s)

SpecCells == CellInit /\ [][CellNext]_vars
-----------------------------------------------------------------------------
(* Properties of the cells (SpecCells).                                     *)

\* The row with this id.
RowOf(table, id) == CHOOSE c \in table : c.id = id

HasRow(table, id) == \E c \in table : c.id = id

\* Request s takes its find step, or its save step, now.
FindStep(s, op) ==
    /\ cellReqs[s].op = op
    /\ cellReqs[s].pc = "find"
    /\ cellReqs'[s] # cellReqs[s]

SaveStep(s, op) ==
    /\ cellReqs[s].op = op
    /\ cellReqs[s].pc = "save"
    /\ cellReqs'[s].pc = "done"

\* The (unit id, cell id) of request s names a stored cell.
Addressed(s) ==
    \E c \in cells : c.id = cellReqs[s].cellID /\ c.ruId = cellReqs[s].ruID

\* The second sec is the one the clock is in.
CurrentSecond(sec) ==
    /\ sec * TicksPerSecond <= now
    /\ now < (sec + 1) * TicksPerSecond

\* No row but the one with this id differs between the table and the next.
OthersKept(id) ==
    /\ \A c \in cells : c.id # id => c \in cells'
    /\ \A c \in cells' : c.id # id => c \in cells

\* The row request s read is still the stored one: no write came between.
Undisturbed(s) ==
    /\ HasRow(cells, cellReqs[s].cellID)
    /\ RowOf(cells, cellReqs[s].cellID) = cellReqs[s].read

\* C17: a status update of an existing (unit id, cell id) is never refused,
\* whatever the current status: the stored status becomes the supplied one.
\* With a grounding flag, isGrounded becomes the flag and
\* lastGroundedOperation the current time; without one both keep the values
\* the request read. lastOperation becomes the current time; name,
\* description, voltage, number and owning unit are those of the row read
\* (the stored ones, when no other write came between), and no other cell
\* changes.
C17_StatusTransition ==
    [][\A s \in Slots :
        LET r == cellReqs[s]
            held == cellReqs'[s].cell
            new == RowOf(cells', r.cellID)
        IN  /\ (FindStep(s, "status") /\ Addressed(s)) =>
                /\ cellReqs'[s].pc = "save"
                /\ held.status = r.status
                /\ IF r.flag.set
                   THEN /\ held.isGrounded = r.flag.val
                        /\ ~held.lastGroundedOperation.nil
                        /\ CurrentSecond(held.lastGroundedOperation.sec)
                   ELSE /\ held.isGrounded = cellReqs'[s].read.isGrounded
                        /\ held.lastGroundedOperation =
                               cellReqs'[s].read.lastGroundedOperation
            /\ SaveStep(s, "status") =>
                /\ cellReqs'[s].code = 200
                /\ HasRow(cells', r.cellID)
                /\ new.status = r.status
                /\ new.isGrounded = r.cell.isGrounded
                /\ new.lastGroundedOperation = r.cell.lastGroundedOperation
                /\ ~new.lastOperation.nil
                /\ CurrentSecond(new.lastOperation.sec)
                /\ new.name = r.read.name
                /\ new.description = r.read.description
                /\ new.voltage = r.read.voltage
                /\ new.number = r.read.number
                /\ new.ruId = r.read.ruId
                /\ new.ruId = r.ruID
                /\ Undisturbed(s) =>
                       LET old == RowOf(cells, r.cellID)
                       IN  /\ new.name = old.name
                           /\ new.description = old.description
                           /\ new.voltage = old.voltage
                           /\ new.ruId = old.ruId
                           /\ ~r.flag.set =>
                                  /\ new.isGrounded = old.isGrounded
                                  /\ new.lastGroundedOperation =
                                         old.lastGroundedOperation
                /\ OthersKept(r.cellID)]_vars

\* A status update with a grounding flag has switched a cell off and
\* grounded it, and was answered.
C17_Witness ==
    \E s \in Slots, c \in cells :
        /\ cellReqs[s].pc = "done"
        /\ cellReqs[s].op = "status"
        /\ cellReqs[s].code = 200
        /\ c.id = cellReqs[s].cellID
        /\ cellReqs[s].read.status = CellStatusON
        /\ c.status = CellStatusOFF
        /\ c.isGrounded
        /\ ~c.lastGroundedOperation.nil
        /\ ~c.lastOperation.nil
\* Request s applies, without a grounding flag, the status a status update
\* before it has stored: the row it read carries that status and an
\* operation time, and is still the stored row.
Repeats(s) ==
    /\ SaveStep(s, "status")
    /\ ~cellReqs[s].flag.set
    /\ Undisturbed(s)
    /\ cellReqs[s].read.status = cellReqs[s].status
    /\ ~cellReqs[s].read.lastOperation.nil

\* The status is the repeated value and the grounding is as it was.
Stable(s) ==
    LET r == cellReqs[s]
        new == RowOf(cells', r.cellID)
    IN  /\ new.status = r.status
        /\ new.isGrounded = r.read.isGrounded
        /\ new.lastGroundedOperation = r.read.lastGroundedOperation
        /\ ~new.lastOperation.nil

\* C18 as stated: the same status applied twice in succession without a
\* grounding flag leaves the status and isGrounded as they were, and the
\* second lastOperation is later than the first.
C18_StampAlwaysAdvances ==
    [][\A s \in Slots : Repeats(s) =>
        /\ Stable(s)
        /\ RowOf(cells', cellReqs[s].cellID).lastOperation.sec >
               cellReqs[s].read.lastOperation.sec]_vars

\* C18, amended: the same status applied twice in succession without a
\* grounding flag leaves the status and isGrounded as they were, and
\* lastOperation is stamped both times with the current time to the second:
\* the second stamp is later than the first when the second application
\* falls in a later clock second, and equal to it when both fall in the
\* same second.
C18_StampPerSecond ==
    [][\A s \in Slots : Repeats(s) =>
        LET first == cellReqs[s].read.lastOperation.sec
            second == RowOf(cells', cellReqs[s].cellID).lastOperation.sec
        IN  /\ Stable(s)
            /\ CurrentSecond(second)
            /\ now >= (first + 1) * TicksPerSecond => second > first
            /\ CurrentSecond(first) => second = first]_vars

\* A status was applied twice within one second: the second application is
\* answered and the stamp stored is the one it had read.
C18_Witness ==
    \E s \in Slots, c \in cells :
        /\ cellReqs[s].pc = "done"
        /\ cellReqs[s].op = "status"
        /\ cellReqs[s].code = 200
        /\ c.id = cellReqs[s].cellID
        /\ ~cellReqs[s].read.lastOperation.nil
        /\ c.status = cellReqs[s].read.status
        /\ c.isGrounded = cellReqs[s].read.isGrounded
        /\ c.lastOperation = cellReqs[s].read.lastOperation

\* C19: an info edit of an existing cell stores the name, description and
\* voltage of its body and nothing else: status, isGrounded, lastOperation
\* and lastGroundedOperation after the edit are those of the row the edit
\* read (the stored ones, when no other write came between), the number and
\* the owning unit stay, and no other cell changes.
C19_InfoEditFrame ==
    [][\A s \in Slots : SaveStep(s, "info") =>
        LET r == cellReqs[s]
            new == RowOf(cells', r.cellID)
        IN  /\ cellReqs'[s].code = 200
            /\ HasRow(cells', r.cellID)
            /\ new.name = r.name
            /\ new.description = r.description
            /\ new.voltage = r.voltage
            /\ new.status = r.read.status
            /\ new.isGrounded = r.read.isGrounded
            /\ new.lastOperation = r.read.lastOperation
            /\ new.lastGroundedOperation = r.read.lastGroundedOperation
            /\ new.number = r.read.number
            /\ new.ruId = r.read.ruId
            /\ Undisturbed(s) =>
                   LET old == RowOf(cells, r.cellID)
                   IN  /\ new.status = old.status
                       /\ new.isGrounded = old.isGrounded
                       /\ new.lastOperation = old.lastOperation
                       /\ new.lastGroundedOperation =
                              old.lastGroundedOperation
            /\ OthersKept(r.cellID)]_vars

\* An info edit has renamed a cell that a status update had switched off
\* and grounded before.
C19_Witness ==
    \E s \in Slots, c \in cells :
        /\ cellReqs[s].pc = "done"
        /\ cellReqs[s].op = "info"
        /\ cellReqs[s].code = 200
        /\ c.id = cellReqs[s].cellID
        /\ c.name = "Feeder 1"
        /\ c.status = CellStatusOFF
        /\ c.isGrounded
        /\ ~c.lastOperation.nil

\* C20: a cell is resolved only when the cell id and the owning unit id both
\* match. A status update or info edit addressed to a cell id under a unit
\* that does not own it fails without reading the cell, leaves every stored
\* row as it is, and no request ever writes a row of another unit than the
\* one it was addressed to.
C20_ScopedResolution ==
    [][\A s \in Slots :
        LET r == cellReqs[s]
        IN  /\ ((FindStep(s, "status") \/ FindStep(s, "info"))
                  /\ ~Addressed(s)) =>
                /\ cellReqs'[s].pc = "done"
                /\ cellReqs'[s].code >= 400
                /\ cellReqs'[s].err # ""
                /\ cellReqs'[s].read = NoCell
                /\ cells' = cells
            /\ ((FindStep(s, "status") \/ FindStep(s, "info"))
                  /\ cellReqs'[s].pc = "save") =>
                /\ Addressed(s)
                /\ cellReqs'[s].read.id = cellReqs'[s].cellID
                /\ cellReqs'[s].read.ruId = cellReqs'[s].ruID
                /\ cellReqs'[s].read \in cells
            /\ (SaveStep(s, "status") \/ SaveStep(s, "info")) =>
                \A c \in cells : c.ruId # r.ruID => c \in cells']_vars

\* A request addressed the cell of unit tp-1i under unit tp-1l and failed;
\* the cell is still stored under tp-1i.
C20_Witness ==
    \E s \in Slots, c \in cells :
        /\ cellReqs[s].pc = "done"
        /\ cellReqs[s].err = ErrCellNotFound
        /\ cellReqs[s].cellID = c.id
        /\ cellReqs[s].ruID # c.ruId
        /\ cellReqs[s].read = NoCell
\* C21: an absent target gives NotFound. A cell status update or info edit
\* whose (unit id, cell id) matches no row is answered with the not-found
\* status 404, not with the status 500 of a storage error, and no row is
\* created or modified.
C21_AbsentIsNotFound ==
    [][\A s \in Slots :
        ((FindStep(s, "status") \/ FindStep(s, "info")) /\ ~Addressed(s)) =>
            /\ cellReqs'[s].pc = "done"
            /\ cellReqs'[s].code = 404
            /\ cells' = cells]_vars
\* C26: the stored status of every cell is a member of {ON, OFF, RESERVE,
\* ERROR, MAINTENANCE}, whatever bodies the status updates carried.
C26_StatusDomain == \A c \in cells : c.status \in CellStatuses
\* The fields a status update writes, and the fields an info edit writes.
StatusFields(c) ==
    <<c.status, c.isGrounded, c.lastOperation, c.lastGroundedOperation>>

InfoFields(c) == <<c.name, c.description, c.voltage>>

\* C28 as stated: a save never reverts what another completed request wrote:
\* the save of an info edit leaves status, isGrounded and the stamps as they
\* are stored, and the save of a status update leaves name, description and
\* voltage as they are stored, also when the other request wrote the row
\* after this one had read it.
C28_NoLostUpdate ==
    [][\A s \in Slots :
        LET r == cellReqs[s]
        IN  /\ (SaveStep(s, "info") /\ HasRow(cells, r.cellID)) =>
                StatusFields(RowOf(cells', r.cellID)) =
                    StatusFields(RowOf(cells, r.cellID))
            /\ (SaveStep(s, "status") /\ HasRow(cells, r.cellID)) =>
                InfoFields(RowOf(cells', r.cellID)) =
                    InfoFields(RowOf(cells, r.cellID))]_vars

\* C28, amended: the last whole-row write wins. The row stored by a save is
\* the row the request read with the request's own fields changed: the
\* fields of the other kind are those the request read, so what another
\* request wrote in between is reverted; when the row read is still the
\* stored one, nothing another request wrote is reverted.
C28_LastWriteWins ==
    [][\A s \in Slots :
        LET r == cellReqs[s]
            new == RowOf(cells', r.cellID)
        IN  /\ SaveStep(s, "info") =>
                /\ HasRow(cells', r.cellID)
                /\ StatusFields(new) = StatusFields(r.read)
                /\ Undisturbed(s) =>
                       StatusFields(new) = StatusFields(RowOf(cells, r.cellID))
            /\ SaveStep(s, "status") =>
                /\ HasRow(cells', r.cellID)
                /\ InfoFields(new) = InfoFields(r.read)
                /\ Undisturbed(s) =>
                       InfoFields(new) = InfoFields(RowOf(cells, r.cellID))]_vars

\* A status update and an info edit of cell 1 have both read the seeded row
\* and both been answered 200, and the stored row has the stamps and the
\* status of the seeded row again: the status update is lost.
C28_Witness ==
    \E a \in Slots, b \in Slots :
        /\ cellReqs[a].pc = "done" /\ cellReqs[a].op = "status"
        /\ cellReqs[b].pc = "done" /\ cellReqs[b].op = "info"
        /\ cellReqs[a].code = 200 /\ cellReqs[b].code = 200
        /\ cellReqs[a].cellID = 1 /\ cellReqs[b].cellID = 1
        /\ cellReqs[a].read = cellReqs[b].read
        /\ HasRow(cells, 1)
        /\ StatusFields(RowOf(cells, 1)) = StatusFields(cellReqs[b].read)
        /\ RowOf(cells, 1).lastOperation.nil
        /\ RowOf(cells, 1).name = "Feeder 1"
\* C27: no path that sets a password stores the hash of a password the policy
\* refuses: every account but the seeded administrator, whether it was
\* registered, created by an administrator or had its password changed,
\* holds the hash of a password validatePassword accepts; the registration
\* of "abc123" (six characters, none special) creates no account.
C27_PolicyOnEveryPath ==
    \A u \in users :
        u.hash # SeedAdmin.hash => validatePassword(u.hash.of).ok
-----------------------------------------------------------------------------
(* The ledger and the units: history append and query, unit status, bulk    *)
(* reassignment (RuHandler, RuService, RuRepository), each request in its   *)
(* own goroutine.                                                           *)

\* RuHandler.GetHistory: the bound when the query carries none it accepts.
DefaultLimit == 50

RECURSIVE OrderByCreatedAtDesc(_)
\* ORDER BY created_at DESC. The creation instants of the rows are distinct
\* (see AddHistoryRecordStamp), so the order is total.
OrderByCreatedAtDesc(rows) ==
    IF rows = {} THEN <<>>
    ELSE LET first == CHOOSE r \in rows :
                          \A o \in rows : o.createdAt <= r.createdAt
         IN  <<first>> \o OrderByCreatedAtDesc(rows \ {first})

\* LIMIT n of a result.
Limit(rows, n) == SubSeq(rows, 1, IF n < Len(rows) THEN n ELSE Len(rows))

\* A query that forgets the unit: the newest rows of the whole table.
GetHistoryByRuIDAnyUnit(table, ruID, limit) ==
    IF limit > 0 THEN Limit(OrderByCreatedAtDesc(table), limit)
    ELSE OrderByCreatedAtDesc(table)

\* RuRepository.GetHistoryByRuID: WHERE ru_id = ? ORDER BY created_at DESC,
\* with LIMIT only when limit > 0.
GetHistoryByRuID(table, ruID, limit) ==
    LET rows == OrderByCreatedAtDesc({r \in table : r.ruId = ruID})
    IN  IF limit > 0 THEN Limit(rows, limit) ELSE rows

\* An insert that replaces the rows of the unit by the new one.
AddHistoryRecordReplacing(table, record) ==
    {r \in table : r.ruId # record.ruId} \cup {record}

\* RuRepository.AddHistoryRecord: db.Create, an INSERT (the key is a fresh
\* uuid, so no row with it is there).
AddHistoryRecord(table, record) == table \cup {record}

\* RuRepository.GetAllRUs: every row (the handler looks rows up by id, so
\* their order does not matter).
GetAllRUs(table) == table

\* RuHandler.GetHistory, lines 118-123: the limit of the query string when
\* it is a positive number, 50 otherwise.
HistoryLimit(limitStr) ==
    IF limitStr # "" /\ Atoi(limitStr).ok /\ Atoi(limitStr).n > 0
    THEN Atoi(limitStr).n
    ELSE DefaultLimit

ErrRuNotFound == "failed to get RU: failed to get RU by ID: record not found"

\* How many requests on units and on the ledger arrive in a run.
MaxRuRequests == 3

\* The handler answers; the request keeps what it was asked and what it
\* answers.
FinishRu(r, code, err) == [r EXCEPT !.pc = "done", !.code = code, !.err = err]

\* A request arrives; ShouldBindJSON may refuse the body (400).
BeginRu(s, r, bodyOk) ==
    /\ ruReqs[s].pc = "idle"
    /\ begun < MaxRuRequests
    /\ begun' = begun + 1
    /\ ruReqs' = [ruReqs EXCEPT ![s] =
                     IF ~bodyOk THEN FinishRu(r, 400, ErrValidation)
                     ELSE [r EXCEPT !.pc = "call"]]
    /\ UNCHANGED <<pwVars, sessVars, gateVars, reqs, nextId, records, cells,
                   cellReqs, rus, inserted>>

\* RuHandler.AddHistory up to the service call: AddHistoryRecordRequest has
\* no binding rules, only a body that is not JSON is refused.
BeginAddHistory(s, ruID, action, bodyOk) ==
    BeginRu(s, RuRequest("append", ruID, "", <<>>, 0,
                         OperationRecord("", "", "c-1", "Input 1", action,
                                         "Ann", "06.11.2026 10:00:00", 0)),
            bodyOk)

\* RuService.AddHistoryRecord, lines 205-224: the record is built with a new
\* uuid, the unit id of the path and time.Now(). The clock is read at
\* nanosecond resolution and the readings of successive calls differ: the
\* n-th reading since the start is written n (the rows that were there
\* before have readings below 0).
AddHistoryRecordStamp(s) ==
    LET r == ruReqs[s]
    IN  /\ r.op = "append"
        /\ r.pc = "call"
        /\ nextId' = nextId + 1
        /\ ruReqs' = [ruReqs EXCEPT ![s] =
               [r EXCEPT !.pc = "insert",
                         !.rec = [r.rec EXCEPT !.id = UUID(nextId + 1),
                                               !.ruId = r.ruID,
                                               !.createdAt = nextId + 1]]]
        /\ UNCHANGED <<pwVars, sessVars, gateVars, reqs, begun, records,
                       cells, cellReqs, rus, inserted>>

\* RuService.AddHistoryRecord, lines 226-230, and the 201 of the handler.
AddHistoryRecordInsert(s) ==
    LET r == ruReqs[s]
    IN  /\ r.op = "append"
        /\ r.pc = "insert"
        /\ records' = AddHistoryRecord(records, r.rec)
        /\ inserted' = Append(inserted, r.rec)
        /\ ruReqs' = [ruReqs EXCEPT ![s] = FinishRu(r, 201, "")]
        /\ UNCHANGED <<pwVars, sessVars, gateVars, acctVars, cells, cellReqs,
                       rus>>

\* RuHandler.GetHistory up to the service call.
BeginGetHistory(s, ruID, limitStr) ==
    BeginRu(s, [RuRequest("history", ruID, "", <<>>, HistoryLimit(limitStr),
                          NoRecord) EXCEPT !.limitStr = limitStr],
            TRUE)

\* RuService.GetHistoryByRuID and the 200 of the handler.
GetHistoryQuery(s) ==
    LET r == ruReqs[s]
    IN  /\ r.op = "history"
        /\ r.pc = "call"
        /\ ruReqs' = [ruReqs EXCEPT ![s] =
               [FinishRu(r, 200, "") EXCEPT
                   !.hist = GetHistoryByRuID(records, r.ruID, r.limit)]]
        /\ UNCHANGED <<pwVars, sessVars, gateVars, acctVars, records, cells,
                       cellReqs, rus, inserted>>

\* The response is written and the goroutine ends.
RuRespond(s) ==
    /\ ruReqs[s].pc = "done"
    /\ ruReqs' = [ruReqs EXCEPT ![s] = NoRuReq]
    /\ UNCHANGED <<pwVars, sessVars, gateVars, acctVars, records, cells,
                   cellReqs, rus, inserted>>

-----------------------------------------------------------------------------
(* The history specification: appends and queries on a ledger in which one  *)
(* unit has more rows than the default bound of a query.                    *)

\* The ledger at the start: the rows of SomeRecords and, for unit tp-1i,
\* one row more than DefaultLimit, made at the instants -3, -4, ...
LongLedger ==
    SomeRecords \cup
    { OperationRecord("old-" \o ToString(n), "tp-1i", "c-1", "Input 1",
                      "inspected", "Ann", "01.01.2026 09:00:00", -2 - n) :
        n \in 1..(DefaultLimit + 1) }

HistRus == {"tp-1i", "tp-1l"}

LimitParams == {"", "0", "-1", "2", "x"}

HistInit ==
    /\ PwDefaults
    /\ GateDefaults
    /\ AcctDefaults
    /\ SessDefaults
    /\ CellDefaults
    /\ UnitDefaults
    /\ records = LongLedger

HistNext ==
    \E s \in Slots :
        \/ \E ruID \in HistRus, bodyOk \in BOOLEAN :
               BeginAddHistory(s, ruID, "switched off", bodyOk)
        \/ AddHistoryRecordStamp(s)
        \/ AddHistoryRecordInsert(s)
        \/ \E ruID \in HistRus, limitStr \in LimitParams :
               BeginGetHistory(s, ruID, limitStr)
        \/ GetHistoryQuery(s)
        \/ RuRespond(s)

SpecHistory == HistInit /\ [][HistNext]_vars

-----------------------------------------------------------------------------
(* Properties of the ledger queries (SpecHistory).                          *)

\* Request s takes its query step now.
QueryStep(s) ==
    /\ ruReqs[s].op = "history"
    /\ ruReqs[s].pc = "call"
    /\ ruReqs'[s].pc = "done"

\* The rows of this unit, and those committed for it since the start.
RowsOf(ruID) == {r \in records : r.ruId = ruID}

InsertedFor(ruID) == SelectSeq(inserted, LAMBDA r : r.ruId = ruID)

\* The result lists rows from the newest creation instant to the oldest.
NewestFirst(hist) ==
    \A i \in 1..Len(hist), j \in 1..Len(hist) :
        i < j => hist[i].createdAt > hist[j].createdAt

\* C23: a query for a unit with a positive bound N answers at most N rows,
\* the N newest of the unit; a query whose bound is 0 or below answers all
\* rows of the unit; and the query leaves the tables as they are.
C23_QueryBound ==
    [][\A s \in Slots :
        QueryStep(s) =>
            LET r == ruReqs[s]
                bound == Atoi(r.limitStr)
                hist == ruReqs'[s].hist
                got == {hist[i] : i \in 1..Len(hist)}
                all == RowsOf(r.ruID)
            IN  /\ got \subseteq all
                /\ NewestFirst(hist)
                /\ (bound.ok /\ bound.n > 0) =>
                       /\ Len(hist) <= bound.n
                       /\ Len(hist) < bound.n => got = all
                       /\ \A g \in got, o \in all \ got :
                              g.createdAt > o.createdAt
                /\ (bound.ok /\ bound.n <= 0) => got = all
                /\ UNCHANGED <<records, rus, cells, users, inserted>>]_vars

\* The last row committed for this unit since the start.
LastInserted(ruID) == InsertedFor(ruID)[Len(InsertedFor(ruID))]

\* C22 as stated: once a record has been appended for unit U, a query for U
\* answers the record appended last as its first row, newest first, and
\* every row it answers is a row of U (so no query for another unit has it).
C22_NewRecordFirst ==
    [][\A s \in Slots :
        QueryStep(s) =>
            LET U == ruReqs[s].ruID
                hist == ruReqs'[s].hist
            IN  /\ \A i \in 1..Len(hist) : hist[i].ruId = U
                /\ NewestFirst(hist)
                /\ InsertedFor(U) # <<>> =>
                       /\ Len(hist) > 0
                       /\ hist[1] = LastInserted(U)]_vars

\* C22, amended: a query for U answers rows of U only, newest first by
\* creation instant, so its first row is the row of U created last. The
\* record appended last for U is that first row when no row of U was created
\* after it, that is, unless its append overlapped with another append for U
\* that read the clock later and committed earlier.
C22_NewestFirst ==
    [][\A s \in Slots :
        QueryStep(s) =>
            LET U == ruReqs[s].ruID
                hist == ruReqs'[s].hist
            IN  /\ ruReqs'[s].code = 200
                /\ \A i \in 1..Len(hist) : hist[i].ruId = U
                /\ \A i \in 1..Len(hist) : hist[i] \in records
                /\ NewestFirst(hist)
                /\ RowsOf(U) # {} =>
                       /\ Len(hist) > 0
                       /\ \A o \in RowsOf(U) :
                              o.createdAt <= hist[1].createdAt
                /\ InsertedFor(U) # <<>> =>
                       /\ LastInserted(U) \in RowsOf(U)
                       /\ (\A o \in RowsOf(U) :
                              o.createdAt <= LastInserted(U).createdAt)
                              => hist[1] = LastInserted(U)
                /\ \A V \in HistRus \ {U} :
                       \A i \in 1..Len(inserted) :
                           inserted[i].ruId = V =>
                               \A j \in 1..Len(hist) : hist[j] # inserted[i]]_vars

\* A query for a unit has been answered with the record appended last for
\* that unit first and older rows behind it, while a record appended for
\* the other unit is stored and is not in the answer.
C22_Witness ==
    \E s \in Slots :
        LET r == ruReqs[s]
        IN  /\ r.pc = "done" /\ r.op = "history" /\ r.code = 200
            /\ InsertedFor(r.ruID) # <<>>
            /\ Len(r.hist) >= 2
            /\ r.hist[1] = LastInserted(r.ruID)
            /\ \E i \in 1..Len(inserted) : inserted[i].ruId # r.ruID

-----------------------------------------------------------------------------
(* Unit status and bulk reassignment.                                       *)

\* RuHandler.UpdateRuStatus up to the service call: status is required.
BeginUpdateRuStatus(s, ruID, status) ==
    BeginRu(s, RuRequest("unit-status", ruID, status, <<>>, 0, NoRecord),
            status # "")

\* RuService.UpdateRuStatus, lines 242-249: GetRuByID and the new status on
\* the row held; every error of the service is answered 500.
UpdateRuStatusFind(s) ==
    LET r == ruReqs[s]
        found == GetRuByID(rus, r.ruID)
        row == CHOOSE u \in found : TRUE
    IN  /\ r.op = "unit-status"
        /\ r.pc = "call"
        /\ ruReqs' = [ruReqs EXCEPT ![s] =
               IF found = {}
               THEN FinishRu(r, 500, ErrRuNotFound)
               ELSE [r EXCEPT !.pc = "save",
                              !.row = [row EXCEPT !.status = r.status]]]
        /\ UNCHANGED <<pwVars, sessVars, gateVars, acctVars, records, cells,
                       cellReqs, rus, inserted>>

\* RuService.UpdateRuStatus, lines 252-256: the whole row is saved.
UpdateRuStatusSave(s) ==
    LET r == ruReqs[s]
    IN  /\ r.op = "unit-status"
        /\ r.pc = "save"
        /\ rus' = UpdateRu(rus, r.row)
        /\ ruReqs' = [ruReqs EXCEPT ![s] = FinishRu(r, 200, "")]
        /\ UNCHANGED <<pwVars, sessVars, gateVars, acctVars, records, cells,
                       cellReqs, inserted>>

\* RuHandler.UpdateSubstationRUs, lines 310-324: for each id of the request,
\* in its order, the unit with that id among all units, with the substation
\* id of the path set on the copy.
FilterRUs(all, ruIds, substationID) ==
    LET found == SelectSeq(ruIds, LAMBDA id : \E u \in all : u.id = id)
    IN  [i \in 1..Len(found) |->
            [(CHOOSE u \in all : u.id = found[i]) EXCEPT
                !.substationID = substationID]]

\* RuHandler.UpdateSubstationRUs up to GetAllRUs: ruIds is required.
BeginUpdateSubstationRUs(s, substationID, ruIds, bodyOk) ==
    BeginRu(s, RuRequest("bulk", substationID, "", ruIds, 0, NoRecord),
            bodyOk)

\* RuHandler.UpdateSubstationRUs from GetAllRUs on: the units are read and
\* the list is answered with 200; nothing is written.
UpdateSubstationRUsRead(s) ==
    LET r == ruReqs[s]
    IN  /\ r.op = "bulk"
        /\ r.pc = "call"
        /\ ruReqs' = [ruReqs EXCEPT ![s] =
               [FinishRu(r, 200, "") EXCEPT
                   !.list = FilterRUs(GetAllRUs(rus), r.ruIds, r.ruID)]]
        /\ UNCHANGED <<pwVars, sessVars, gateVars, acctVars, records, cells,
                       cellReqs, rus, inserted>>

-----------------------------------------------------------------------------
(* The ledger specification: every operation the router exposes on units,   *)
(* cells and the ledger, beside the deletion of an account.                 *)

LedgerRus == {"tp-1l", "no-such-unit"}

UnitStatusInputs == {"under repair", ""}

BulkIds == <<"tp-1l", "no-such-unit", "tp-1i">>

LedgerInit ==
    /\ PwDefaults
    /\ GateDefaults
    /\ AcctDefaults
    /\ RuDefaults
    /\ SessDefaults

LedgerNext ==
    \/ \E s \in Slots :
        \/ \E ruID \in LedgerRus :
            \/ BeginAddHistory(s, ruID, "switched off", TRUE)
            \/ BeginGetHistory(s, ruID, "")
            \/ \E status \in UnitStatusInputs :
                   BeginUpdateRuStatus(s, ruID, status)
        \/ \E bodyOk \in BOOLEAN :
               BeginUpdateSubstationRUs(s, "ps-200", BulkIds, bodyOk)
        \/ AddHistoryRecordStamp(s)
        \/ AddHistoryRecordInsert(s)
        \/ GetHistoryQuery(s)
        \/ UpdateRuStatusFind(s)
        \/ UpdateRuStatusSave(s)
        \/ UpdateSubstationRUsRead(s)
        \/ RuRespond(s)
    \/ BeginDeleteUser(SessSlot, SeedAdmin.id)
    \/ DeleteUserFind(SessSlot)
    \/ DeleteUserDelete(SessSlot)
    \/ AcctRespond(SessSlot)
    \/ BeginUpdateCellStatus(SessSlot, "tp-1i", "1", CellStatusOFF, NoFlag)
    \/ BeginUpdateCellInfo(SessSlot, "tp-1i", "1", "Feeder 1", "Spare", "6 kV")
    \/ UpdateCellStatusFind(SessSlot)
    \/ UpdateCellStatusSave(SessSlot)
    \/ UpdateCellInfoFind(SessSlot)
    \/ UpdateCellInfoSave(SessSlot)
    \/ CellRespond(SessSlot)

SpecLedger == LedgerInit /\ [][LedgerNext]_vars

-----------------------------------------------------------------------------
(* Properties of the ledger (SpecLedger).                                   *)

\* Request s commits its record now.
InsertStep(s) ==
    /\ ruReqs[s].op = "append"
    /\ ruReqs[s].pc = "insert"
    /\ ruReqs'[s].pc = "done"

\* C24: whatever operations run (appends, queries, unit and cell updates,
\* bulk reassignment, the deletion of an account), every operation record
\* that is stored is stored unchanged in the next state; the ledger changes
\* only in the insert step of an append, and then by exactly the one record
\* of that request, under an id no stored record has.
C24_AppendOnly ==
    [][/\ records \subseteq records'
       /\ records' # records =>
              \E s \in Slots :
                  /\ InsertStep(s)
                  /\ records' = records \cup {ruReqs[s].rec}
                  /\ \A r \in records : r.id # ruReqs[s].rec.id]_vars

\* A record has been appended for a unit that had one, the seeded
\* administrator's account has been deleted and a cell or a unit has been
\* updated, and the two records of the start are still stored.
C24_Witness ==
    /\ \E i \in 1..Len(inserted) : inserted[i].ruId = "tp-1l"
    /\ SeedAdmin \notin users
    /\ (rus # SeedRUs \/ cells # SeedCells)
    /\ SomeRecords \subseteq records
    /\ Cardinality(records) > Cardinality(SomeRecords)

\* C25: a bulk reassignment skips the ids that match no unit; when it
\* answers success, its list is the found units in the order of the request
\* and the stored substation id of each of them is the target.
C25_BulkReassignment ==
    [][\A s \in Slots :
        (/\ ruReqs[s].op = "bulk"
         /\ ruReqs[s].pc = "call"
         /\ ruReqs'[s].pc = "done"
         /\ ruReqs'[s].code = 200) =>
            LET r == ruReqs[s]
                list == ruReqs'[s].list
                found == SelectSeq(r.ruIds, LAMBDA id : \E u \in rus : u.id = id)
            IN  /\ Len(list) = Len(found)
                /\ \A i \in 1..Len(list) : list[i].id = found[i]
                /\ \A i \in 1..Len(list) :
                       \E u \in rus' :
                           /\ u.id = list[i].id
                           /\ u.substationID = r.ruID]_vars

\* C29: the unit id of every stored operation record is the id of a stored
\* unit; an append addressed to an id that matches no unit stores nothing.
C29_RecordsReferenceUnits ==
    \A r \in records : \E u \in rus : u.id = r.ruId

-----------------------------------------------------------------------------
(* The stateless-token specification: an engineer logs in and presents the  *)
(* token to the protected group while an administrator edits, re-keys and   *)
(* deletes the account.                                                     *)

Engineer == CHOOSE u \in GateUsers : u.id = "u-eng"

NewPassword == <<"n", "e", "w", "p", "w", "!">>

\* Routes behind the authentication gate alone, behind the administrators'
\* role gate and behind the engineers'.
GatedRoutes ==
    {r \in Routes : r.handler \in {"GetMe", "GetUsers", "EngineerTest"}}

StatelessNext ==
    \/ Tick
    \/ LoginRequest(Engineer.email, Abc123Bang)
    \/ \E r \in GatedRoutes :
           /\ jar # NoToken
           /\ Serve(r.method, PathOf(r), <<Word("Bearer"), Sp, Tok(jar)>>,
                    FALSE)
    \/ Respond
    \/ \E email \in {Engineer.email, "alice@x.com"} :
           BeginUpdateUser(SessSlot, Engineer.id, Engineer.name, email,
                           "admin")
    \/ UpdateUserFind(SessSlot)
    \/ UpdateUserCheck(SessSlot)
    \/ UpdateUserSave(SessSlot)
    \/ BeginChangePassword(SessSlot, Engineer.id, NewPassword)
    \/ ChangePasswordFind(SessSlot)
    \/ ChangePasswordSave(SessSlot)
    \/ BeginDeleteUser(SessSlot, Engineer.id)
    \/ DeleteUserFind(SessSlot)
    \/ DeleteUserDelete(SessSlot)
    \/ AcctRespond(SessSlot)

SpecStateless == GateInit /\ [][StatelessNext]_vars

\* The token of a login under the configured secret is presented in Bearer
\* form before its expiry.
IssuedTokenInTime ==
    /\ last.served
    /\ last.origin.kind = "issued"
    /\ last.origin.key = jwtSecret
    /\ last.at < Presented.claims.exp

\* C30: the gates decide from the token, the secret and the clock, whatever
\* the users table holds: a token issued at login, presented before its
\* expiry, is admitted by the authentication gate with the id, email and
\* role the account had when the token was issued, and the role gate
\* decides on that role, also after an administrator has changed the
\* account's role, email or password or deleted the account.
C30_StatelessGate ==
    IssuedTokenInTime =>
        /\ last.c.vt.ok
        /\ last.c.status # 401
        /\ last.c.keys.set
        /\ last.c.keys.user_id = last.origin.uid
        /\ last.c.keys.user_role = last.origin.role
        /\ last.c.keys.user_role = Presented.claims.role
        /\ PastAuth
        /\ last.c.group = "auth" => EndpointRan
        /\ last.c.group \in {"admin", "engineer", "dispatcher"} =>
               (EndpointRan <=> Accepts(last.c.group, last.origin.role))
        /\ last.c = RunChain(Dispatch(last.c.method, last.c.group,
                                      last.c.path, FALSE),
                             Context(last.c.method, last.c.group, last.c.path,
                                     last.c.header),
                             jwtSecret, last.at)

\* The engineer's token is admitted to the engineer's endpoint as engineer,
\* at a later clock value than its issue, while the account has been made
\* an administrator and given a new password.
C30_Witness ==
    /\ IssuedTokenInTime
    /\ last.at > last.origin.at
    /\ last.c.group = "engineer"
    /\ EndpointRan
    /\ last.c.keys.user_role = "engineer"
    /\ \A u \in users : u.role # "engineer"
    /\ \E u \in users : /\ u.id = last.origin.uid
                        /\ u.role = "admin"
                        /\ u.hash = HashPassword(NewPassword)

====
